---------------------------- MODULE Spec2Model ----------------------------
(***************************************************************************)
(* Query routing and retrieval pipeline of the document assistant:         *)
(*   - QueryKBMapper        (backend/agents/old/query_kb_mapper_agent      *)
(*                           norme.py), the router;                        *)
(*   - NoResultsHandler     (backend/agents/no_result_handler_agent.py);   *)
(*   - AgentOrchestrator    (backend/agents/orchestrator.py).              *)
(*                                                                         *)
(* Strings are sequences of one-character strings.  Relevance scores are   *)
(* integers in hundredths (0.6 is 60, 1.0 is 100).                         *)
(***************************************************************************)
EXTENDS Integers, Sequences, FiniteSets, TLC

VARIABLES
    \* ---- one call of QueryKBMapper.map_query_to_kbs ----
    map_pc,            \* "idle" | "done"
    map_catalog,       \* kb_manager.list_knowledge_bases(): sequence of kb ids
    map_query,         \* the query argument
    map_min_relevance, \* the min_relevance argument
    map_response,      \* what make_llm_call does when it is called
    map_result,        \* what map_query_to_kbs did: [raised, value, llm_calls]
    \* ---- the orchestrator's session ----
    catalog,              \* kb_manager.list_knowledge_bases(): sequence of kb ids
    kb_content,           \* set of <<query, kb_id>>: searches that find passages
    conversation_history, \* AgentOrchestrator.conversation_history
    turn,                 \* number of process_message calls made
    last_call,            \* inputs, collaborator calls and outcome of the last call
    \* ---- SearchAgent._combined_fallback_search ----
    fb_hash_seed,      \* the interpreter's string hash seed: order of list(set(...))
    fb_call,           \* the arguments and the knowledge base of the calls
    fb_runs,           \* what each call did, in order: [seed, raised, value]
    \* ---- SearchAgent.multi_kb_search (search_agent simple.py) ----
    mk_env,            \* the config argument, which bases load, what kb.query does
    mk_runs,           \* what each call did, in order
    \* ---- one call of NoResultsHandler.analyze_failed_search ----
    an_call,           \* the arguments, and what make_llm_call does when called
    an_outcome,        \* what the call did: [raised, analysis, llm_calls]
    \* ---- one call of normalize_doc_id ----
    nd_call,           \* which normalize_doc_id was called, and its filename
    nd_result          \* what the call did: [raised, value]

map_vars == <<map_pc, map_catalog, map_query, map_min_relevance, map_response, map_result>>
orch_vars == <<catalog, kb_content, conversation_history, turn, last_call>>
fb_vars == <<fb_hash_seed, fb_call, fb_runs>>
mk_vars == <<mk_env, mk_runs>>
an_vars == <<an_call, an_outcome>>
nd_vars == <<nd_call, nd_result>>
vars == <<map_vars, orch_vars, fb_vars, mk_vars, an_vars, nd_vars>>

-----------------------------------------------------------------------------
(* Bounds of the model *)

\* Longest "mappings" array in a reply of the text-completion backend.
MaxMappings == 3

-----------------------------------------------------------------------------
(* Strings *)

LowerChar(c) ==
    CASE c = "A" -> "a"
      [] c = "B" -> "b"
      [] c = "C" -> "c"
      [] c = "N" -> "n"
      [] OTHER -> c

\* str.lower()
Lower(s) == [i \in 1..Len(s) |-> LowerChar(s[i])]

\* s.find(sub) != -1
Contains(s, sub) ==
    \E i \in 0..(Len(s) - Len(sub)) :
        \A j \in 1..Len(sub) : s[i + j] = sub[j]

RECURSIVE LStrip(_)
LStrip(s) == IF s # <<>> /\ Head(s) = " " THEN LStrip(Tail(s)) ELSE s

RECURSIVE RStrip(_)
RStrip(s) ==
    IF s # <<>> /\ s[Len(s)] = " " THEN RStrip(SubSeq(s, 1, Len(s) - 1)) ELSE s

\* str.strip()
Strip(s) == RStrip(LStrip(s))

-----------------------------------------------------------------------------
(* Knowledge bases and queries of the model *)

KbAb == <<"a", "b">>
KbC == <<"C">>
KbNormes == <<"n", "o", "r", "m", "e", "s">>

\* Catalogs: the sub-lists of <<"ab", "C", "normes">>.
Catalogs ==
    { <<>>, <<KbAb>>, <<KbC>>, <<KbNormes>>, <<KbAb, KbC>>, <<KbAb, KbNormes>>,
      <<KbC, KbNormes>>, <<KbAb, KbC, KbNormes>> }

QPlain == <<"z">>                               \* mentions no base
QMentionAb == <<"x", "A", "B">>                 \* mentions "ab" in upper case
QMentionNormes == <<"N", "o", "r", "m", "e", "s">>
QMentionAbC == <<"a", "b", " ", "c">>           \* mentions "ab" and "C"

Queries == { QPlain, QMentionNormes, QMentionAbC }

InCatalog(kb_id, available_kbs) ==
    \E i \in 1..Len(available_kbs) : available_kbs[i] = kb_id


-----------------------------------------------------------------------------
(* Replies of the text-completion backend to the mapping prompt *)

\* The "relevance_score" member of a mapping, as float() sees it.
Num(v) == [t |-> "num", v |-> v]
BadScore == [t |-> "bad", v |-> 0]      \* a non-numeric string: ValueError
NullScore == [t |-> "null", v |-> 0]    \* null or a list: TypeError

Mapping(kb_id, score) == [dict |-> TRUE, kb_id |-> kb_id, relevance_score |-> score]
\* An element of "mappings" that is not an object (a string, a number).
NonDictMapping == [dict |-> FALSE, kb_id |-> <<>>, relevance_score |-> Num(0)]

MappingEntries ==
    { Mapping(k, Num(s)) : k \in {KbAb, KbNormes}, s \in {30, 80, 150} }
    \cup { Mapping(KbC, Num(30)), Mapping(KbC, Num(80)),
           Mapping(<<" ">> \o KbAb \o <<" ">>, Num(80)),
           Mapping(KbAb, BadScore),
           Mapping(KbC, NullScore),
           NonDictMapping }

MappingLists == UNION { [1..n -> MappingEntries] : n \in 0..MaxMappings }

\* kind: what make_llm_call does and what its text is to json.loads and to
\* the brace pattern of _extract_json_from_response.
Reply(kind, mappings) == [kind |-> kind, mappings |-> mappings]
LlmRaises == Reply("raise", <<>>)           \* make_llm_call raises
ReplyNotText == Reply("not_text", <<>>)     \* returns None, not a string
ReplyNoBraces == Reply("no_braces", <<>>)   \* not JSON, no {...} in the text
ReplyBadBraces == Reply("bad_braces", <<>>) \* not JSON, {...} found, not JSON either
ReplyNonDict == Reply("json_nondict", <<>>) \* JSON, but a list, a number, null
ReplyEmptyDict == Reply("json_empty_dict", <<>>)       \* {}
ReplyNoMappings == Reply("json_no_mappings", <<>>)     \* {"other": ...}
ReplyMappingsNotList == Reply("json_mappings_not_list", <<>>) \* {"mappings": 3}

MapReplies ==
    { LlmRaises, ReplyNotText, ReplyNoBraces, ReplyBadBraces, ReplyNonDict,
      ReplyEmptyDict, ReplyNoMappings, ReplyMappingsNotList }
    \cup { Reply("json", ms) : ms \in MappingLists }
    \cup { Reply("embedded", ms) : ms \in { x \in MappingLists : Len(x) <= 1 } }

\* The reply cannot be parsed as the structured payload, neither directly nor
\* after brace extraction.
Unparseable(response) == response.kind \in {"no_braces", "bad_braces"}

-----------------------------------------------------------------------------
(* QueryKBMapper *)

\* Minimum score of a retained mapping, and the default of min_relevance.
MinScore == 60
DefaultMinRelevance == 60
\* Number of bases kept.
MaxBases == 2

Max(a, b) == IF a >= b THEN a ELSE b
Min(a, b) == IF a <= b THEN a ELSE b

\* What _extract_json_from_response returns: a parsed value, None, or an
\* exception other than JSONDecodeError leaving it.
ExtractJsonFromResponse(response) ==
    CASE response.kind = "not_text" ->
            [raised |-> TRUE, type |-> "none", has_mappings |-> FALSE,
             is_list |-> FALSE, mappings |-> <<>>]
      [] response.kind = "no_braces" ->
            [raised |-> FALSE, type |-> "none", has_mappings |-> FALSE,
             is_list |-> FALSE, mappings |-> <<>>]
      [] response.kind = "bad_braces" ->
            [raised |-> FALSE, type |-> "dict", has_mappings |-> TRUE,
             is_list |-> TRUE, mappings |-> <<>>]
      [] response.kind = "json_nondict" ->
            [raised |-> FALSE, type |-> "nondict", has_mappings |-> FALSE,
             is_list |-> FALSE, mappings |-> <<>>]
      [] response.kind = "json_empty_dict" ->
            [raised |-> FALSE, type |-> "empty_dict", has_mappings |-> FALSE,
             is_list |-> FALSE, mappings |-> <<>>]
      [] response.kind = "json_no_mappings" ->   \* .get("mappings", []) is []
            [raised |-> FALSE, type |-> "dict", has_mappings |-> FALSE,
             is_list |-> TRUE, mappings |-> <<>>]
      [] response.kind = "json_mappings_not_list" ->
            [raised |-> FALSE, type |-> "dict", has_mappings |-> TRUE,
             is_list |-> FALSE, mappings |-> <<>>]
      [] OTHER ->   \* "json", "embedded"
            [raised |-> FALSE, type |-> "dict", has_mappings |-> TRUE,
             is_list |-> TRUE, mappings |-> response.mappings]

\* kb_mentions[kb_id]
KbMentioned(kb_id, query) == Contains(Lower(query), Lower(kb_id))

\* A final score that forgets the mention override.
FinalScore_NoMention(kb_id, base_score, query) ==
    Max(MinScore, Min(100, base_score))

\* final_score of one mapping
FinalScore(kb_id, base_score, query) ==
    IF KbMentioned(kb_id, query) THEN 100
    ELSE Max(MinScore, Min(100, base_score))

\* "Ne garder que les scores suffisants"
ScoreSufficient(final_score) == final_score >= MinScore

KBMappingResult(kb_id, relevance_score) ==
    [kb_id |-> kb_id, relevance_score |-> relevance_score]

\* The loop over the mappings: [aborted, results].  aborted: an exception that
\* the loop body does not catch (a mapping without .get) left the loop.
RECURSIVE ProcessMappings(_, _, _, _)
ProcessMappings(mappings, results, query, available_kbs) ==
    IF mappings = <<>> THEN [aborted |-> FALSE, results |-> results]
    ELSE
        LET mapping == Head(mappings)
            rest == Tail(mappings)
            kb_id == Strip(mapping.kb_id)
            final_score == FinalScore(kb_id, mapping.relevance_score.v, query)
        IN  IF ~mapping.dict THEN [aborted |-> TRUE, results |-> <<>>]
            ELSE IF mapping.relevance_score.t # "num"
                 THEN ProcessMappings(rest, results, query, available_kbs)
            ELSE IF kb_id = <<>> \/ ~InCatalog(kb_id, available_kbs)
                 THEN ProcessMappings(rest, results, query, available_kbs)
            ELSE IF ScoreSufficient(final_score)
                 THEN ProcessMappings(rest,
                          Append(results, KBMappingResult(kb_id, final_score)),
                          query, available_kbs)
            ELSE ProcessMappings(rest, results, query, available_kbs)

\* A sort that leaves the list as the loop built it.
SortDesc_Unsorted(results) == results

\* results.sort(key=relevance_score, reverse=True): stable, descending.
RECURSIVE InsertDesc(_, _)
InsertDesc(x, sorted) ==
    IF sorted = <<>> THEN <<x>>
    ELSE IF Head(sorted).relevance_score >= x.relevance_score
         THEN <<Head(sorted)>> \o InsertDesc(x, Tail(sorted))
         ELSE <<x>> \o sorted

RECURSIVE SortDesc(_)
SortDesc(results) ==
    IF results = <<>> THEN <<>>
    ELSE InsertDesc(results[Len(results)],
                    SortDesc(SubSeq(results, 1, Len(results) - 1)))

\* A final selection that keeps every retained mapping.
SelectFinal_NoCap(results) == results

\* A final selection that puts the best other base first and "normes" second.
SelectFinal_NormesSecond(results) ==
    LET IsNormes(m) == m.kb_id = <<"n", "o", "r", "m", "e", "s">>
        IsOther(m) == m.kb_id # <<"n", "o", "r", "m", "e", "s">>
        normes == SelectSeq(results, IsNormes)
        other_mappings == SelectSeq(results, IsOther)
    IN  IF normes # <<>> /\ other_mappings # <<>>
        THEN <<Head(other_mappings), Head(normes)>>
        ELSE SubSeq(results, 1, IF Len(results) < 2 THEN Len(results) ELSE 2)

\* "Gerer la priorite de la base normes" and the final selection.
SelectFinal(results) ==
    LET IsNormes(m) == m.kb_id = KbNormes
        IsOther(m) == m.kb_id # KbNormes
        normes == SelectSeq(results, IsNormes)
        other_mappings == SelectSeq(results, IsOther)
    IN  IF normes # <<>>
        THEN <<Head(normes)>> \o
             (IF other_mappings # <<>> /\ 1 < MaxBases
              THEN <<Head(other_mappings)>> ELSE <<>>)
        ELSE SubSeq(results, 1, Min(MaxBases, Len(results)))

\* _evaluate_kb_relevance: the list it returns.
EvaluateKbRelevance(mapping_response, query, available_kbs) ==
    IF ~mapping_response.is_list THEN <<>>   \* iterating it raises: except branch
    ELSE
        LET loop == ProcessMappings(mapping_response.mappings, <<>>, query,
                                    available_kbs)
        IN  IF loop.aborted THEN <<>>
            ELSE SelectFinal(SortDesc(loop.results))

MapOutcome(raised, value, llm_calls) ==
    [raised |-> raised, value |-> value, llm_calls |-> llm_calls]

\* map_query_to_kbs that asks the backend before it looks at the catalog.
MapQueryToKbs_LlmFirst(query, min_relevance, available_kbs, response) ==
    IF response.kind = "raise" THEN MapOutcome(FALSE, <<>>, 1)
    ELSE
        LET json_data == ExtractJsonFromResponse(response)
        IN  IF json_data.raised \/ json_data.type # "dict" \/ available_kbs = <<>>
            THEN MapOutcome(FALSE, <<>>, 1)
            ELSE MapOutcome(FALSE,
                            EvaluateKbRelevance(json_data, query, available_kbs), 1)

\* map_query_to_kbs(query, min_relevance) with the catalog available_kbs and
\* a backend that answers the mapping prompt by response.
MapQueryToKbs(query, min_relevance, available_kbs, response) ==
    IF available_kbs = <<>> THEN MapOutcome(FALSE, <<>>, 0)
    ELSE IF response.kind = "raise" THEN MapOutcome(FALSE, <<>>, 1)
    ELSE
        LET json_data == ExtractJsonFromResponse(response)
        IN  IF json_data.raised THEN MapOutcome(FALSE, <<>>, 1)
            ELSE IF json_data.type # "dict" THEN MapOutcome(FALSE, <<>>, 1)
            ELSE MapOutcome(FALSE,
                            EvaluateKbRelevance(json_data, query, available_kbs), 1)

-----------------------------------------------------------------------------
(* One call of map_query_to_kbs, on its own *)

MinRelevances == {DefaultMinRelevance, 80}

IdleOutcome == MapOutcome(FALSE, <<>>, 0)

MapCall ==
    /\ map_pc = "idle"
    /\ \E min_relevance \in MinRelevances, response \in MapReplies :
        /\ map_min_relevance' = min_relevance
        /\ map_response' = response
        /\ map_result' = MapQueryToKbs(map_query, min_relevance, map_catalog, response)
    /\ map_pc' = "done"
    /\ UNCHANGED <<map_catalog, map_query, orch_vars, fb_vars, mk_vars, an_vars, nd_vars>>

-----------------------------------------------------------------------------
(* The variant of the router in backend/agents/old/query_kb_mapper_agent     *)
(* copy2.py: the backend is called before the try, the reply is parsed by   *)
(* json.loads alone, and a parse failure returns the whole catalog.         *)

\* The comprehension over the mappings: [raised, results].  raised: a
\* TypeError of mapping[...] or of >=, which the except clause does not name.
RECURSIVE Copy2RelevantKbs(_, _, _)
Copy2RelevantKbs(mappings, min_relevance, results) ==
    IF mappings = <<>> THEN [raised |-> FALSE, results |-> results]
    ELSE
        LET mapping == Head(mappings)
        IN  IF ~mapping.dict \/ mapping.relevance_score.t # "num"
            THEN [raised |-> TRUE, results |-> <<>>]
            ELSE Copy2RelevantKbs(Tail(mappings), min_relevance,
                     IF mapping.relevance_score.v >= min_relevance
                     THEN Append(results,
                              KBMappingResult(mapping.kb_id, mapping.relevance_score.v))
                     ELSE results)

\* "Fallback si le parsing JSON echoue - retourner toutes les bases"
Copy2Fallback(available_kbs) ==
    [i \in 1..Len(available_kbs) |-> KBMappingResult(available_kbs[i], 100)]

\* map_query_to_kbs(query, min_relevance) of copy2.py.
Copy2MapQueryToKbs(query, min_relevance, available_kbs, response) ==
    IF response.kind \in {"raise", "not_text", "json_nondict", "json_mappings_not_list"}
    THEN MapOutcome(TRUE, <<>>, 1)
    ELSE IF response.kind \in {"no_braces", "bad_braces", "embedded"}
    THEN MapOutcome(FALSE, Copy2Fallback(available_kbs), 1)
    ELSE
        LET relevant_kbs == Copy2RelevantKbs(response.mappings, min_relevance, <<>>)
        IN  IF relevant_kbs.raised THEN MapOutcome(TRUE, <<>>, 1)
            ELSE MapOutcome(FALSE, SortDesc(relevant_kbs.results), 1)

Copy2MapCall ==
    /\ map_pc = "idle"
    /\ \E min_relevance \in MinRelevances, response \in MapReplies :
        /\ map_min_relevance' = min_relevance
        /\ map_response' = response
        /\ map_result' = Copy2MapQueryToKbs(map_query, min_relevance, map_catalog,
                                            response)
    /\ map_pc' = "done"
    /\ UNCHANGED <<map_catalog, map_query, orch_vars, fb_vars, mk_vars, an_vars, nd_vars>>

-----------------------------------------------------------------------------
(* The variant of the router in backend/agents/old/query_kb_mapper_agent     *)
(* simple.py: the backend selects the bases ("selected_kbs"), without       *)
(* scores, and the first two complete selections are kept.                  *)

\* An element of "selected_kbs": an object, with or without both of the keys
\* "kb_id" and "reason", or a number.
Selection(kb_id, has_keys) == [dict |-> TRUE, kb_id |-> kb_id, has_keys |-> has_keys]
NonDictSelection == [dict |-> FALSE, kb_id |-> <<>>, has_keys |-> FALSE]

SelectionEntries ==
    { Selection(k, TRUE) : k \in {KbAb, KbC, KbNormes} }
    \cup { Selection(KbAb, FALSE), NonDictSelection }

SelectionLists == UNION { [1..n -> SelectionEntries] : n \in 0..MaxMappings }

\* Replies to the selection prompt: Reply("json", selected_kbs) and the
\* replies that are no such object.
SimpleReplies ==
    { LlmRaises, ReplyNoBraces, ReplyNonDict, ReplyEmptyDict }
    \cup { Reply("json", sel) : sel \in SelectionLists }

\* KBMappingResult of simple.py: kb_id and reasoning, no score.
SimpleKBMappingResult(kb_id) == [kb_id |-> kb_id]

\* The loop of _process_llm_response over selected[:2]: [aborted, results].
\* aborted: `"kb_id" in selection` raises TypeError on a number.
RECURSIVE SimpleSelections(_, _)
SimpleSelections(selected, results) ==
    IF selected = <<>> THEN [aborted |-> FALSE, results |-> results]
    ELSE
        LET selection == Head(selected)
        IN  IF ~selection.dict THEN [aborted |-> TRUE, results |-> <<>>]
            ELSE SimpleSelections(Tail(selected),
                     IF selection.has_keys
                     THEN Append(results, SimpleKBMappingResult(selection.kb_id))
                     ELSE results)

\* _process_llm_response: [aborted, results]
SimpleProcessLlmResponse(response) ==
    IF response.kind = "no_braces" THEN [aborted |-> FALSE, results |-> <<>>]
    ELSE IF response.kind = "json_nondict" THEN [aborted |-> TRUE, results |-> <<>>]
    ELSE SimpleSelections(SubSeq(response.mappings, 1,
                                 Min(MaxBases, Len(response.mappings))), <<>>)

\* The first base of the catalog whose lower-cased id contains "normes".
SimpleNormesKb(available_kbs) ==
    LET hits == { i \in 1..Len(available_kbs) : Contains(Lower(available_kbs[i]), KbNormes) }
    IN  IF hits = {} THEN <<>>
        ELSE <<SimpleKBMappingResult(
                   available_kbs[CHOOSE i \in hits : \A j \in hits : i <= j])>>

\* map_query_to_kbs(query) of simple.py.
SimpleMapQueryToKbs(query, available_kbs, response) ==
    IF available_kbs = <<>> THEN MapOutcome(FALSE, <<>>, 0)
    ELSE IF response.kind = "raise" THEN MapOutcome(FALSE, <<>>, 1)
    ELSE
        LET mapping_results == SimpleProcessLlmResponse(response)
        IN  IF mapping_results.aborted THEN MapOutcome(FALSE, <<>>, 1)
            ELSE IF mapping_results.results = <<>>
            THEN MapOutcome(FALSE, SimpleNormesKb(available_kbs), 1)
            ELSE MapOutcome(FALSE, mapping_results.results, 1)

SimpleMapCall ==
    /\ map_pc = "idle"
    /\ \E response \in SimpleReplies :
        /\ map_response' = response
        /\ map_result' = SimpleMapQueryToKbs(map_query, map_catalog, response)
    /\ map_pc' = "done"
    /\ UNCHANGED <<map_catalog, map_query, map_min_relevance, orch_vars, fb_vars, mk_vars, an_vars, nd_vars>>

-----------------------------------------------------------------------------
(* NoResultsHandler *)

\* A reply of the text-completion backend to the analysis prompt: it raises,
\* it is not JSON, or it is the JSON object asked for.
AnalysisReply(kind, causes, actions, reformulations) ==
    [kind |-> kind, possible_causes |-> causes, suggested_actions |-> actions,
     reformulations |-> reformulations]

SearchFailureAnalysis(failure_type, causes, actions, reformulated_queries) ==
    [failure_type |-> failure_type, possible_causes |-> causes,
     suggested_actions |-> actions, reformulated_queries |-> reformulated_queries]

\* _handle_no_kb_case (reformulated_queries is None)
HandleNoKbCase ==
    SearchFailureAnalysis("no_kb",
        <<"no knowledge base created", "knowledge bases inaccessible">>,
        <<"create a knowledge base", "check permissions", "contact the administrator">>,
        <<>>)

AnalysisOutcome(raised, analysis, llm_calls) ==
    [raised |-> raised, analysis |-> analysis, llm_calls |-> llm_calls]

\* str.split(): the words of s, split at runs of spaces.
RECURSIVE SplitWords(_, _)
SplitWords(s, cur) ==
    LET flush == IF cur = <<>> THEN <<>> ELSE <<cur>>
    IN  IF s = <<>> THEN flush
        ELSE IF Head(s) = " " THEN flush \o SplitWords(Tail(s), <<>>)
        ELSE SplitWords(Tail(s), Append(cur, Head(s)))

\* ' '.join(words)
RECURSIVE JoinWords(_)
JoinWords(words) ==
    IF words = <<>> THEN <<>>
    ELSE IF Len(words) = 1 THEN Head(words)
    ELSE Head(words) \o <<" ">> \o JoinWords(Tail(words))

\* Number of leading words _simplify_query keeps.
SimplifyKeepWords == 4

\* _simplify_query: the three French intensifiers it strips cannot be written
\* in the model's alphabet; what is left is the cut to the first four words.
SimplifyQuery(query) ==
    LET words == SplitWords(query, <<>>)
    IN  JoinWords(SubSeq(words, 1, Min(SimplifyKeepWords, Len(words))))

IsUpperChar(c) == c \in {"A", "B", "C", "N"}

\* re.sub(r'\b\d+\b|\b[A-Z0-9-]+\b', '', s): over letters and spaces, every
\* whole word made of upper-case letters only is removed.
RECURSIVE RemoveUpperWords(_, _)
RemoveUpperWords(s, cur) ==
    LET flush == IF \A i \in 1..Len(cur) : IsUpperChar(cur[i]) THEN <<>> ELSE cur
    IN  IF s = <<>> THEN flush
        ELSE IF Head(s) = " " THEN flush \o <<" ">> \o RemoveUpperWords(Tail(s), <<>>)
        ELSE RemoveUpperWords(Tail(s), Append(cur, Head(s)))

\* _remove_specific_terms
RemoveSpecificTerms(query) == Strip(RemoveUpperWords(query, <<>>))

\* _get_default_no_results_analysis
DefaultNoResultsAnalysis(query) ==
    SearchFailureAnalysis("no_results",
        <<"terms too specific", "content absent from the bases">>,
        <<"try more general terms", "check the spelling", "use synonyms">>,
        <<SimplifyQuery(query), RemoveSpecificTerms(query)>>)

\* _handle_no_results_case: the backend call is made before the try block.
HandleNoResultsCase(query, reply) ==
    IF reply.kind = "raise" THEN AnalysisOutcome(TRUE, HandleNoKbCase, 1)
    ELSE IF reply.kind = "json"
         THEN AnalysisOutcome(FALSE,
                  SearchFailureAnalysis("no_results", reply.possible_causes,
                      reply.suggested_actions, reply.reformulations), 1)
    ELSE AnalysisOutcome(FALSE, DefaultNoResultsAnalysis(query), 1)

\* _handle_low_relevance_case with _generate_specific_queries: the lines of
\* the backend's reply are the reformulated queries.
HandleLowRelevanceCase(query, reply) ==
    IF reply.kind = "raise" THEN AnalysisOutcome(TRUE, HandleNoKbCase, 1)
    ELSE AnalysisOutcome(FALSE,
             SearchFailureAnalysis("low_relevance",
                 <<"low mean relevance score", "terms too general", "ambiguous terms">>,
                 <<"search more specifically", "use precise technical terms",
                   "add search filters">>,
                 reply.reformulations), 1)

\* analyze_failed_search(original_query, available_kbs, search_contexts) with a
\* backend that answers the handler's prompt by reply.
AnalyzeFailedSearch(original_query, available_kbs, search_contexts, reply) ==
    IF available_kbs = <<>> THEN AnalysisOutcome(FALSE, HandleNoKbCase, 0)
    ELSE IF search_contexts = <<>> THEN HandleNoResultsCase(original_query, reply)
    ELSE HandleLowRelevanceCase(original_query, reply)

-----------------------------------------------------------------------------
(* SearchFilter (backend/utils/filter_utils.py) *)

\* kb_ids: a list of ids (None is <<>>); doc_ids: the dict kb_id -> [doc_id],
\* as the sequence of its items (None is <<>>).
SearchFilter(kb_ids, doc_ids) == [kb_ids |-> kb_ids, doc_ids |-> doc_ids]
DocIdsItem(kb_id, docs) == [kb_id |-> kb_id, docs |-> docs]
NoFilter == SearchFilter(<<>>, <<>>)

\* has_filters
HasFilters(f) == f.kb_ids # <<>> \/ f.doc_ids # <<>>

GetKbIds(f) ==
    IF f.kb_ids # <<>> THEN f.kb_ids
    ELSE [i \in 1..Len(f.doc_ids) |-> f.doc_ids[i].kb_id]

MetadataFilter(none, value) == [none |-> none, value |-> value]

\* to_metadata_filter: {"field": "doc_id", "operator": "in", "value": ...} or None
ToMetadataFilter(f, kb_id) ==
    LET hits == { i \in 1..Len(f.doc_ids) : f.doc_ids[i].kb_id = kb_id }
    IN  IF hits = {} THEN MetadataFilter(TRUE, <<>>)
        ELSE MetadataFilter(FALSE, f.doc_ids[CHOOSE i \in hits : TRUE].docs)

-----------------------------------------------------------------------------
(* The collaborators of the orchestrator whose code is not at hand:        *)
(* KnowledgeBaseManager (backend/kb_management/manager.py) and the         *)
(* SearchAgent it is built with, by their contracts.                       *)

\* load_knowledge_base(kb_id): a handle for a base of the catalog, else None.
LoadKnowledgeBase(kb_id, available_kbs) == InCatalog(kb_id, available_kbs)

\* Every passage of the model lives in the document "d1".
\* search(query, kb, filters): the doc ids of the passages returned.
Search(query, kb_id, metadata_filter, content) ==
    IF /\ <<query, kb_id>> \in content
       /\ \/ metadata_filter.none
          \/ \E i \in 1..Len(metadata_filter.value) : metadata_filter.value[i] = "d1"
    THEN <<"d1">> ELSE <<>>

SearchContext(kb_id, results, mapping_score) ==
    [kb_id |-> kb_id, results |-> results, mapping_score |-> mapping_score]

\* multi_kb_search(query, kb_mappings): one SearchContext per listed base that
\* loads and returns passages, in the order of the mappings.
RECURSIVE MultiKbSearch(_, _, _, _)
MultiKbSearch(query, kb_mappings, available_kbs, content) ==
    IF kb_mappings = <<>> THEN <<>>
    ELSE
        LET mapping == Head(kb_mappings)
            results == Search(query, mapping.kb_id, MetadataFilter(TRUE, <<>>), content)
            rest == MultiKbSearch(query, Tail(kb_mappings), available_kbs, content)
        IN  IF LoadKnowledgeBase(mapping.kb_id, available_kbs) /\ results # <<>>
            THEN <<SearchContext(mapping.kb_id, results, mapping.relevance_score)>> \o rest
            ELSE rest

-----------------------------------------------------------------------------
(* AgentOrchestrator *)

\* metadata of a Message; kind says which keys it holds.
Metadata(kind, failure_type, reformulations, sources, successful) ==
    [kind |-> kind, failure_type |-> failure_type, reformulations |-> reformulations,
     sources |-> sources, successful |-> successful]
NoMetadata == Metadata("none", "", <<>>, <<>>, <<>>)

\* content of an assistant Message is kept as its kind.
Message(role, content, metadata) ==
    [role |-> role, content |-> content, metadata |-> metadata]

\* A call the orchestrator makes to a collaborator.
Call(op, query, kb_id) == [op |-> op, query |-> query, kb_id |-> kb_id]

\* What the environment does during one process_message.
CallInput(message, search_filter, route_reply, analysis_reply, answer_raises, kb_manager_raises, search_raises) ==
    [message |-> message, search_filter |-> search_filter,
     route_reply |-> route_reply, analysis_reply |-> analysis_reply,
     answer_raises |-> answer_raises, kb_manager_raises |-> kb_manager_raises,
     search_raises |-> search_raises]

\* How process_message ends: [history, calls, kb_mappings, raised, message].
CallResult(history, calls, kb_mappings, raised, message) ==
    [history |-> history, calls |-> calls, kb_mappings |-> kb_mappings,
     raised |-> raised, message |-> message]
NoMessage == Message("none", <<>>, NoMetadata)

\* _create_failure_analysis_message
CreateFailureAnalysisMessage(analysis) ==
    Message("assistant", <<"failure">>,
        Metadata("failure_analysis", analysis.failure_type,
                 analysis.reformulated_queries, <<>>, <<>>))

Source(kb_id, documents) == [kb_id |-> kb_id, documents |-> documents]

\* A response message that names no source.
CreateResponseMessage_NoSources(content, search_contexts, successful) ==
    Message("assistant", content, Metadata("sources", "", <<>>, <<>>, successful))

\* _create_response_message
CreateResponseMessage(content, search_contexts, successful) ==
    Message("assistant", content,
        Metadata(IF successful = <<>> THEN "sources" ELSE "sources+reformulation",
                 "", <<>>,
                 [i \in 1..Len(search_contexts) |->
                     Source(search_contexts[i].kb_id, search_contexts[i].results)],
                 successful))

\* A search of every base of the catalog, whatever the filter lists.
FilteredSearch_WholeCatalog(kb_ids, query, search_filter, available_kbs, content, search_raises, search_contexts, calls) ==
    [raised |-> FALSE, contexts |-> search_contexts,
     calls |-> calls \o [i \in 1..Len(available_kbs) |->
                            Call("search", query, available_kbs[i])]]

\* _filtered_search: [raised, contexts, calls]
RECURSIVE FilteredSearch(_, _, _, _, _, _, _, _)
FilteredSearch(kb_ids, query, search_filter, available_kbs, content, search_raises, search_contexts, calls) ==
    IF kb_ids = <<>>
    THEN [raised |-> FALSE, contexts |-> search_contexts, calls |-> calls]
    ELSE
        LET kb_id == Head(kb_ids)
            results == Search(query, kb_id, ToMetadataFilter(search_filter, kb_id), content)
            calls1 == Append(calls, Call("search", query, kb_id))
        IN  IF ~LoadKnowledgeBase(kb_id, available_kbs)
            THEN FilteredSearch(Tail(kb_ids), query, search_filter, available_kbs,
                                content, search_raises, search_contexts, calls)
            ELSE IF search_raises
            THEN [raised |-> TRUE, contexts |-> <<>>, calls |-> calls1]
            ELSE FilteredSearch(Tail(kb_ids), query, search_filter, available_kbs,
                     content, search_raises,
                     IF results # <<>>
                     THEN Append(search_contexts, SearchContext(kb_id, results, 100))
                     ELSE search_contexts,
                     calls1)

\* The orchestrator's call of the handler: analyze_failed_search(message, [],
\* available_kbs), that is with available_kbs = [] and the catalog as
\* search_contexts.
AnalyzeCall(message, available_kbs, reply) ==
    AnalyzeFailedSearch(message, <<>>, available_kbs, reply)

\* The loop over analysis.reformulated_queries: [raised, found, query, contexts, calls]
RECURSIVE TryReformulations(_, _, _, _, _, _)
TryReformulations(queries, kb_mappings, available_kbs, content, search_raises, calls) ==
    IF queries = <<>>
    THEN [raised |-> FALSE, found |-> FALSE, query |-> <<>>, contexts |-> <<>>,
          calls |-> calls]
    ELSE
        LET query == Head(queries)
            new_contexts == MultiKbSearch(query, kb_mappings, available_kbs, content)
            calls1 == Append(calls, Call("multi_kb_search", query, <<>>))
        IN  IF search_raises
            THEN [raised |-> TRUE, found |-> FALSE, query |-> query,
                  contexts |-> <<>>, calls |-> calls1]
            ELSE IF new_contexts # <<>>
            THEN [raised |-> FALSE, found |-> TRUE, query |-> query,
                  contexts |-> new_contexts, calls |-> calls1]
            ELSE TryReformulations(Tail(queries), kb_mappings, available_kbs, content,
                                   search_raises, calls1)

\* A direct success that starts the history afresh with the response.
RespondDirect_FreshHistory(history, calls, kb_mappings, message, search_contexts, in) ==
    CallResult(<<CreateResponseMessage(<<"answer">>, search_contexts, <<>>)>>,
               Append(calls, Call("llm_answer", message, <<>>)), kb_mappings, FALSE,
               CreateResponseMessage(<<"answer">>, search_contexts, <<>>))

\* The end of process_message on its direct-success path (lines 97-101):
\* _generate_response, _create_response_message, append, return.
RespondDirect(history, calls, kb_mappings, message, search_contexts, in) ==
    LET calls1 == Append(calls, Call("llm_answer", message, <<>>))
        response_message == CreateResponseMessage(<<"answer">>, search_contexts, <<>>)
    IN  IF in.answer_raises
        THEN CallResult(history, calls1, kb_mappings, TRUE, NoMessage)
        ELSE CallResult(Append(history, response_message), calls1, kb_mappings,
                        FALSE, response_message)

\* _create_reformulated_response, returned by process_message as it is.
RespondReformulated(history, calls, kb_mappings, successful_query, search_contexts, in) ==
    LET calls1 == Append(calls, Call("llm_answer", successful_query, <<>>))
    IN  IF in.answer_raises
        THEN CallResult(history, calls1, kb_mappings, TRUE, NoMessage)
        ELSE CallResult(history, calls1, kb_mappings, FALSE,
                 CreateResponseMessage(<<"reformulated answer">>, search_contexts,
                                       successful_query))

\* A failure message that is recorded in the history before it is returned.
RespondFailure_Recorded(history, calls, kb_mappings, available_kbs, in) ==
    LET analysis == AnalyzeCall(in.message, available_kbs, in.analysis_reply)
        failure_message == CreateFailureAnalysisMessage(analysis.analysis)
    IN  CallResult(Append(history, failure_message),
                   Append(calls, Call("analyze_failed_search", in.message, <<>>)),
                   kb_mappings, FALSE, failure_message)

\* analyze_failed_search, then the failure message (lines 44-49 and 58-63).
RespondFailure(history, calls, kb_mappings, available_kbs, in) ==
    LET analysis == AnalyzeCall(in.message, available_kbs, in.analysis_reply)
        calls1 == Append(calls, Call("analyze_failed_search", in.message, <<>>))
        calls2 == IF analysis.llm_calls = 1
                  THEN Append(calls1, Call("llm_analysis", in.message, <<>>))
                  ELSE calls1
    IN  IF analysis.raised
        THEN CallResult(history, calls2, kb_mappings, TRUE, NoMessage)
        ELSE CallResult(history, calls2, kb_mappings, FALSE,
                        CreateFailureAnalysisMessage(analysis.analysis))

\* Lines 69-92: no result of the mapped search, the analysis and the retries.
RetryReformulated(history, calls, kb_mappings, available_kbs, content, in) ==
    LET analysis == AnalyzeCall(in.message, available_kbs, in.analysis_reply)
        calls1 == Append(calls, Call("analyze_failed_search", in.message, <<>>))
        calls2 == IF analysis.llm_calls = 1
                  THEN Append(calls1, Call("llm_analysis", in.message, <<>>))
                  ELSE calls1
        retry == TryReformulations(analysis.analysis.reformulated_queries, kb_mappings,
                                   available_kbs, content, in.search_raises, calls2)
    IN  IF analysis.raised
        THEN CallResult(history, calls2, kb_mappings, TRUE, NoMessage)
        ELSE IF retry.raised
        THEN CallResult(history, retry.calls, kb_mappings, TRUE, NoMessage)
        ELSE IF retry.found
        THEN RespondReformulated(history, retry.calls, kb_mappings, retry.query,
                                 retry.contexts, in)
        ELSE CallResult(history, retry.calls, kb_mappings, FALSE,
                        CreateFailureAnalysisMessage(analysis.analysis))

\* process_message(message, search_filter) in a session whose history is
\* history, with the catalog available_kbs and the bases' content.
ProcessMessage(history, available_kbs, content, in) ==
    LET history1 == Append(history, Message("user", in.message, NoMetadata))
        calls0 == <<Call("list_knowledge_bases", <<>>, <<>>)>>
    IN  IF in.kb_manager_raises
        THEN CallResult(history1, calls0, <<>>, TRUE, NoMessage)
        ELSE IF HasFilters(in.search_filter)
        THEN
            LET fs == FilteredSearch(GetKbIds(in.search_filter), in.message,
                          in.search_filter, available_kbs, content, in.search_raises,
                          <<>>, calls0)
            IN  IF fs.raised
                THEN CallResult(history1, fs.calls, <<>>, TRUE, NoMessage)
                ELSE IF fs.contexts = <<>>
                THEN RespondFailure(history1, fs.calls, <<>>, available_kbs, in)
                ELSE RespondDirect(history1, fs.calls, <<>>, in.message, fs.contexts, in)
        ELSE
            LET mapped == MapQueryToKbs(in.message, DefaultMinRelevance, available_kbs,
                                        in.route_reply)
                kb_mappings == mapped.value
                calls1 == Append(calls0, Call("map_query_to_kbs", in.message, <<>>))
                calls2 == IF mapped.llm_calls = 1
                          THEN Append(calls1, Call("llm_route", in.message, <<>>))
                          ELSE calls1
                calls3 == Append(calls2, Call("multi_kb_search", in.message, <<>>))
                search_contexts == MultiKbSearch(in.message, kb_mappings, available_kbs,
                                                 content)
            IN  IF mapped.raised
                THEN CallResult(history1, calls2, <<>>, TRUE, NoMessage)
                ELSE IF kb_mappings = <<>>
                THEN RespondFailure(history1, calls2, kb_mappings, available_kbs, in)
                ELSE IF in.search_raises
                THEN CallResult(history1, calls3, kb_mappings, TRUE, NoMessage)
                ELSE IF search_contexts = <<>>
                THEN RetryReformulated(history1, calls3, kb_mappings, available_kbs,
                                       content, in)
                ELSE RespondDirect(history1, calls3, kb_mappings, in.message,
                                   search_contexts, in)

-----------------------------------------------------------------------------
(* SearchAgent (backend/agents/old/search_agent simple.py): text handling   *)
(* of the keyword strategy.  Keyword scores and similarities are integers   *)
(* in hundredths.                                                          *)

\* \w of the patterns: letters, digits and the underscore.
IsWordChar(c) ==
    c \in {"a", "b", "c", "d", "e", "f", "h", "l", "n", "o", "p", "r", "s", "t", "u",
           "x", "y", "A", "B", "C", "N", "_", "0", "1", "2", "3"}

\* text.split(): the maximal runs of characters other than the space, in
\* their order.
SplitText(s) ==
    LET starts == { i \in 1..Len(s) : s[i] # " " /\ (i = 1 \/ s[i - 1] = " ") }
        ends == { j \in 1..Len(s) : s[j] # " " /\ (j = Len(s) \/ s[j + 1] = " ") }
        Nth(set, n) == CHOOSE i \in set : Cardinality({ k \in set : k < i }) = n - 1
    IN  [n \in 1..Cardinality(starts) |-> SubSeq(s, Nth(starts, n), Nth(ends, n))]

\* _preprocess_text: lower case, every character outside \w and \s replaced
\* by a space, runs of spaces collapsed, ends stripped; that is, the words
\* that are left, joined by single spaces.
PreprocessText(text) ==
    LET lowered == Lower(text)
        spaced == [i \in 1..Len(lowered) |->
                      IF IsWordChar(lowered[i]) THEN lowered[i] ELSE " "]
    IN  JoinWords(SplitText(spaced))

\* _tokenize_text: the \w+ runs of the preprocessed text (regexp_tokenize and
\* the split() fallback agree on it).
TokenizeText(text) == SplitText(PreprocessText(text))

\* self.stop_words, as far as the model's words go.
StopWords == { <<"t", "h", "e">>, <<"a">> }

\* Shortest word _get_keywords keeps is one letter longer than this.
KeywordMinLen == 2

\* The distinct elements of a list, in the order of their first occurrence.
RECURSIVE Distinct(_, _)
Distinct(list, seen) ==
    IF list = <<>> THEN <<>>
    ELSE IF Head(list) \in seen THEN Distinct(Tail(list), seen)
    ELSE <<Head(list)>> \o Distinct(Tail(list), seen \cup {Head(list)})

Reverse(list) == [i \in 1..Len(list) |-> list[Len(list) + 1 - i]]

\* The hash seeds of the model: two of the iteration orders a set of strings
\* can have (all of them for a set of at most two strings).
HashSeeds == {0, 1}

\* list(set(keywords)): the order is that of the set's hash table, which the
\* interpreter's string hash seed decides.
ListOfSet(list, hash_seed) ==
    IF hash_seed = 0 THEN Distinct(list, {}) ELSE Reverse(Distinct(list, {}))

\* _get_keywords
GetKeywords(text, hash_seed) ==
    LET tokens == TokenizeText(PreprocessText(text))
        Keep(word) == word \notin StopWords /\ Len(word) > KeywordMinLen
    IN  ListOfSet(SelectSeq(tokens, Keep), hash_seed)

\* Bonus of _keyword_search_score for a pair of adjacent keywords found in
\* the text, in hundredths.
PairBonus == 10

\* _keyword_search_score, in hundredths (exact for one or two keywords).
KeywordSearchScore(text, keywords) ==
    IF keywords = <<>> THEN 0
    ELSE
        LET pre == PreprocessText(text)
            words == SplitText(pre)
            text_words == { words[i] : i \in 1..Len(words) } \ StopWords
            matches == Cardinality({ i \in 1..Len(keywords) : keywords[i] \in text_words })
            pairs == Cardinality({ i \in 1..(Len(keywords) - 1) :
                         Contains(pre, keywords[i] \o <<" ">> \o keywords[i + 1]) })
        IN  Min(100, (matches * 100) \div Len(keywords) + PairBonus * pairs)

-----------------------------------------------------------------------------
(* SearchAgent._combined_fallback_search *)

\* A knowledge base: the sequence of its documents [id, chunks], in the order
\* of chunk_db.get_all_doc_ids(); chunks[i + 1] is the text of chunk i.
Document(id, chunks) == [id |-> id, chunks |-> chunks]

DocIds(kb) == [i \in 1..Len(kb) |-> kb[i].id]

\* chunk_db.get_chunk_text(doc_id, chunk_index): <<>> stands for None.
GetChunkText(kb, doc_id, chunk_index) ==
    LET hits == { i \in 1..Len(kb) : kb[i].id = doc_id }
        doc == kb[CHOOSE i \in hits : TRUE]
    IN  IF hits = {} \/ chunk_index + 1 > Len(doc.chunks) THEN <<>>
        ELSE doc.chunks[chunk_index + 1]

\* An element of kb.search()'s result, and what the chunk lookups made for it
\* do (lookup_raises).
Hit(doc_id, chunk_index, similarity, lookup_raises) ==
    [doc_id |-> doc_id, chunk_index |-> chunk_index, similarity |-> similarity,
     lookup_raises |-> lookup_raises]

\* What kb.search(query, limit, metadata_filter) does.
KbSearch(raises, hits) == [raises |-> raises, hits |-> hits]

SearchConfig(fallback_min_relevance, max_segments_per_doc) ==
    [fallback_min_relevance |-> fallback_min_relevance,
     max_segments_per_doc |-> max_segments_per_doc]

\* DocumentReference; chunk_index stands for the title and the page numbers,
\* which the chunk determines; strategy records which loop built the object.
DocumentReference(doc_id, chunk_index, text, relevance_score, strategy) ==
    [doc_id |-> doc_id, chunk_index |-> chunk_index, text |-> text,
     relevance_score |-> relevance_score, strategy |-> strategy]

\* Lines 188-207: the hits of kb.search() at or above the floor, up to the
\* first lookup that raises.
RECURSIVE CollectKbResults(_, _, _, _)
CollectKbResults(hits, kb, config, kb_results) ==
    IF hits = <<>> THEN kb_results
    ELSE
        LET result == Head(hits)
        IN  IF result.similarity < config.fallback_min_relevance
            THEN CollectKbResults(Tail(hits), kb, config, kb_results)
            ELSE IF result.lookup_raises THEN kb_results
            ELSE CollectKbResults(Tail(hits), kb, config,
                     Append(kb_results,
                         DocumentReference(result.doc_id, result.chunk_index,
                             GetChunkText(kb, result.doc_id, result.chunk_index),
                             result.similarity, "vector")))

\* Step 1, with its try/except.
KbResults(kb, search, config) ==
    IF search.raises THEN <<>>
    ELSE CollectKbResults(search.hits, kb, config, <<>>)

\* _check_metadata_filter for the filter {"field": "doc_id", "operator": "in"}.
CheckMetadataFilter(doc_id, metadata_filter) ==
    \/ metadata_filter.none
    \/ \E i \in 1..Len(metadata_filter.value) : metadata_filter.value[i] = doc_id

\* The while loop over the chunks of one document.
RECURSIVE KeywordChunks(_, _, _, _, _)
KeywordChunks(kb, doc_id, chunk_index, keywords, config) ==
    LET chunk_text == GetChunkText(kb, doc_id, chunk_index)
        score == KeywordSearchScore(chunk_text, keywords)
        rest == KeywordChunks(kb, doc_id, chunk_index + 1, keywords, config)
    IN  IF chunk_text = <<>> THEN <<>>
        ELSE IF score >= config.fallback_min_relevance
        THEN <<DocumentReference(doc_id, chunk_index, chunk_text, score, "keyword")>>
             \o rest
        ELSE rest

\* Step 2: the loop over the documents.
RECURSIVE KeywordResults(_, _, _, _, _)
KeywordResults(kb, doc_ids, metadata_filter, keywords, config) ==
    IF doc_ids = <<>> THEN <<>>
    ELSE
        (IF CheckMetadataFilter(Head(doc_ids), metadata_filter)
         THEN KeywordChunks(kb, Head(doc_ids), 0, keywords, config)
         ELSE <<>>)
        \o KeywordResults(kb, Tail(doc_ids), metadata_filter, keywords, config)

\* Number of leading characters of the text that get_chunk_key uses.
KeyPrefixLen == 100

\* get_chunk_key: f"{result.doc_id}_{result.text[:100]}"
GetChunkKey(result) ==
    result.doc_id \o <<"_">>
        \o SubSeq(result.text, 1, Min(KeyPrefixLen, Len(result.text)))

\* Factor applied to the score of a keyword result that is merged, in tenths.
KeywordPenaltyTenths == 9

Penalized(result) ==
    [result EXCEPT !.relevance_score = (@ * KeywordPenaltyTenths) \div 10]

\* The two merge loops (lines 255-268): [all_results, seen_chunks].
RECURSIVE MergeUnseen(_, _, _, _)
MergeUnseen(results, all_results, seen_chunks, penalize) ==
    IF results = <<>> THEN [all_results |-> all_results, seen_chunks |-> seen_chunks]
    ELSE
        LET result == Head(results)
            chunk_key == GetChunkKey(result)
        IN  IF chunk_key \in seen_chunks
            THEN MergeUnseen(Tail(results), all_results, seen_chunks, penalize)
            ELSE MergeUnseen(Tail(results),
                     Append(all_results, IF penalize THEN Penalized(result) ELSE result),
                     seen_chunks \cup {chunk_key}, penalize)

CountDoc(results, doc_id) ==
    Cardinality({ i \in 1..Len(results) : results[i].doc_id = doc_id })

\* The loop of lines 278-281.
RECURSIVE LimitPerDoc(_, _, _)
LimitPerDoc(all_results, max_segments_per_doc, filtered_results) ==
    IF all_results = <<>> THEN filtered_results
    ELSE LimitPerDoc(Tail(all_results), max_segments_per_doc,
             IF CountDoc(filtered_results, Head(all_results).doc_id) < max_segments_per_doc
             THEN Append(filtered_results, Head(all_results))
             ELSE filtered_results)

\* No limit on the segments of a document.
LimitSegments_Off(all_results, config) == all_results

\* Lines 273-283: "Limiter le nombre de segments par document".
LimitSegments(all_results, config) ==
    IF config.max_segments_per_doc > 0
    THEN LimitPerDoc(all_results, config.max_segments_per_doc, <<>>)
    ELSE all_results

\* The limit applied to the merged list as it is, and no sort.
MergeResults_Unsorted(kb_results, keyword_results, config) ==
    LimitSegments(MergeUnseen(keyword_results,
                      MergeUnseen(kb_results, <<>>, {}, FALSE).all_results,
                      MergeUnseen(kb_results, <<>>, {}, FALSE).seen_chunks,
                      TRUE).all_results,
                  config)

\* Lines 246-285: merge, sort, limit.
MergeResults(kb_results, keyword_results, config) ==
    LET vector == MergeUnseen(kb_results, <<>>, {}, FALSE)
        merged == MergeUnseen(keyword_results, vector.all_results,
                              vector.seen_chunks, TRUE)
    IN  LimitSegments(SortDesc(merged.all_results), config)

\* How _combined_fallback_search ends.
FbOutcome(raised, value) == [raised |-> raised, value |-> value]

\* _combined_fallback_search(query, kb, metadata_filter, config) in an
\* interpreter whose hash seed is hash_seed, with a kb.search that does search.
CombinedFallbackSearch(query, kb, metadata_filter, config, search, hash_seed) ==
    LET keywords == GetKeywords(query, hash_seed)
    IN  IF keywords = <<>> THEN FbOutcome(FALSE, <<>>)
        ELSE FbOutcome(FALSE,
                 MergeResults(KbResults(kb, search, config),
                              KeywordResults(kb, DocIds(kb), metadata_filter,
                                             keywords, config),
                              config))

-----------------------------------------------------------------------------
(* Calls of _combined_fallback_search *)

\* Most hits in a result of kb.search(); most calls made with the same
\* arguments.
MaxHits == 2
MaxRuns == 2

DocD == <<"d">>
DocDa == <<"d", "_", "a">>

TextAbc == <<"a", "b", "c">>
TextAbd == <<"a", "b", "d">>
TextBoth == <<"a", "b", "c", " ", "a", "b", "d">>
\* "abc abdx": holds the keyword abc, and "abc abd" as a substring only.
TextSubstring == <<"a", "b", "c", " ", "a", "b", "d", "x">>
\* "a_abc": in document "d" its key is that of "abc" in document "d_a".
TextUnderscore == <<"a", "_", "a", "b", "c">>
\* Two texts that agree on their first 100 characters.
LongPrefix == [i \in 1..KeyPrefixLen |-> "x"]
TextLongAbc == LongPrefix \o <<" ">> \o TextAbc
TextLongAbd == LongPrefix \o <<" ">> \o TextAbd

\* "annual safety report 2023" and a passage that holds "safety report" and
\* "2023" but not "annual".
QueryAnnualReport ==
    <<"a", "n", "n", "u", "a", "l", " ", "s", "a", "f", "e", "t", "y", " ", "r", "e", "p", "o", "r", "t", " ", "2", "0", "2", "3">>
TextSafetyReport ==
    <<"2", "0", "2", "3", " ", "s", "a", "f", "e", "t", "y", " ", "r", "e", "p", "o", "r", "t">>
KbSafetyReport == <<Document(DocD, <<TextSafetyReport>>)>>

FbKbs ==
    { KbSafetyReport,
      <<Document(DocD, <<TextSubstring, TextBoth>>), Document(DocDa, <<TextAbd>>)>>,
      <<Document(DocD, <<TextUnderscore>>), Document(DocDa, <<TextAbc>>)>>,
      <<Document(DocD, <<TextLongAbc, TextLongAbd, TextAbc>>)>> }

\* "annual safety report 2023", "abc abd", "Abc, the abc" and "the a": four
\* keywords, two, one, none.
FbQueries ==
    { QueryAnnualReport, TextBoth,
      <<"A", "b", "c", ",", " ", "t", "h", "e", " ", "a", "b", "c">>,
      <<"t", "h", "e", " ", "a">> }

FbFilters == { MetadataFilter(TRUE, <<>>), MetadataFilter(FALSE, <<DocD>>) }

\* fallback_min_relevance is the default 0.3; max_segments_per_doc the
\* default 3 and smaller values, 0 and -1 included.
DefaultFallbackMinRelevance == 30
FbConfigs == { SearchConfig(DefaultFallbackMinRelevance, n) : n \in {-1, 0, 1, 2, 3} }

\* The hits kb.search() can return for kb: chunks of kb, with a similarity
\* below the floor (no lookup is made) or above it.
HitsOf(kb) ==
    UNION { UNION { { Hit(kb[i].id, j - 1, 20, FALSE), Hit(kb[i].id, j - 1, 95, FALSE),
                      Hit(kb[i].id, j - 1, 95, TRUE) } :
                    j \in 1..Len(kb[i].chunks) } :
            i \in 1..Len(kb) }

KbSearches(kb) ==
    { KbSearch(TRUE, <<>>) }
    \cup { KbSearch(FALSE, hits) :
             hits \in UNION { [1..n -> HitsOf(kb)] : n \in 0..MaxHits } }

FbCall(kb, query, metadata_filter, config, search) ==
    [made |-> TRUE, kb |-> kb, query |-> query, metadata_filter |-> metadata_filter,
     config |-> config, search |-> search]

NoFbCall == [made |-> FALSE]

FbRun(hash_seed, outcome) ==
    [hash_seed |-> hash_seed, raised |-> outcome.raised, value |-> outcome.value]

RunFallback(call, hash_seed) ==
    FbRun(hash_seed,
          CombinedFallbackSearch(call.query, call.kb, call.metadata_filter,
                                 call.config, call.search, hash_seed))

\* The first call of _combined_fallback_search.
FallbackSearchCall ==
    /\ fb_runs = <<>>
    /\ \E kb \in FbKbs, query \in FbQueries, metadata_filter \in FbFilters,
          config \in FbConfigs :
        \E search \in KbSearches(kb) :
            LET call == FbCall(kb, query, metadata_filter, config, search)
            IN  /\ fb_call' = call
                /\ fb_runs' = <<RunFallback(call, fb_hash_seed)>>
    /\ UNCHANGED <<fb_hash_seed, map_vars, orch_vars, mk_vars, an_vars, nd_vars>>

\* The same call again: same arguments, same knowledge base, same kb.search.
FallbackSearchAgain ==
    /\ fb_runs # <<>>
    /\ Len(fb_runs) < MaxRuns
    /\ fb_runs' = Append(fb_runs, RunFallback(fb_call, fb_hash_seed))
    /\ UNCHANGED <<fb_hash_seed, fb_call, map_vars, orch_vars, mk_vars, an_vars, nd_vars>>

\* The application is started again: the interpreter draws a new string hash
\* seed (PYTHONHASHSEED is random unless it is set).
RestartInterpreter ==
    /\ fb_runs # <<>>
    /\ Len(fb_runs) < MaxRuns
    /\ fb_hash_seed' \in HashSeeds \ {fb_hash_seed}
    /\ UNCHANGED <<fb_call, fb_runs, map_vars, orch_vars, mk_vars, an_vars, nd_vars>>

FallbackIdle ==
    /\ fb_hash_seed = 0
    /\ fb_call = NoFbCall
    /\ fb_runs = <<>>

InitFallback ==
    /\ fb_hash_seed \in HashSeeds
    /\ fb_call = NoFbCall
    /\ fb_runs = <<>>

NextFallback == FallbackSearchCall \/ FallbackSearchAgain \/ RestartInterpreter

-----------------------------------------------------------------------------
(* SearchAgent.search and SearchAgent.multi_kb_search of                   *)
(* old/search_agent simple.py                                              *)

\* The parameters of search(self, query, kb, filters=None), and the keyword
\* arguments multi_kb_search calls it with.
SearchParameters == {"query", "kb", "filters"}
SearchCallKeywords == {"query", "kb", "config"}

\* Python binds a call's keyword arguments to the parameters of the function;
\* a keyword that names no parameter raises TypeError before the body runs.
AcceptsKeywords(parameters, keywords) == keywords \subseteq parameters

\* What kb.query(...) does.
QueryOutcomes == {"raises", "empty", "passages"}

\* The body of search (lines 309-356): the doc ids of the DocumentReferences
\* built from kb.query's results; an exception gives the empty list.
SimpleSearch(kb_query) == IF kb_query = "passages" THEN <<"d1">> ELSE <<>>

\* The call self.search(query=..., kb=..., config=...) of lines 401-405.
SearchCall(keywords, kb_query) ==
    IF AcceptsKeywords(SearchParameters, keywords)
    THEN [raised |-> FALSE, value |-> SimpleSearch(kb_query)]
    ELSE [raised |-> TRUE, value |-> <<>>]

\* config: Optional[SearchConfig]; min_relevance in hundredths.
NoConfig == [none |-> TRUE, min_relevance |-> 0]
ConfigWith(min_relevance) == [none |-> FALSE, min_relevance |-> min_relevance]

\* Lines 387-398: "Ajuster la configuration en fonction du score de mapping".
AdjustedConfig(config, mapping) ==
    IF config.none THEN NoConfig
    ELSE ConfigWith((config.min_relevance * mapping.relevance_score) \div 100)

\* How multi_kb_search ends; adjusted lists, for each base that was loaded
\* with a config, the mapping and the min_relevance of its adjusted_config.
MkOutcome(raised, value, adjusted) ==
    [raised |-> raised, value |-> value, adjusted |-> adjusted]

Adjusted(mapping, adjusted_config) ==
    [kb_id |-> mapping.kb_id, mapping_score |-> mapping.relevance_score,
     min_relevance |-> adjusted_config.min_relevance]

\* The loop of lines 372-416 and the return of line 425.
RECURSIVE MultiKbLoop(_, _, _, _)
MultiKbLoop(kb_mappings, env, search_contexts, adjusted) ==
    IF kb_mappings = <<>> THEN MkOutcome(FALSE, search_contexts, adjusted)
    ELSE
        LET mapping == Head(kb_mappings)
            kb == env.loads[mapping.kb_id]
            adjusted_config == AdjustedConfig(env.config, mapping)
            seen == IF env.config.none THEN adjusted
                    ELSE Append(adjusted, Adjusted(mapping, adjusted_config))
            results == SearchCall(SearchCallKeywords, env.kb_query)
        IN  IF ~kb THEN MultiKbLoop(Tail(kb_mappings), env, search_contexts, adjusted)
            ELSE IF results.raised THEN MkOutcome(TRUE, <<>>, seen)
            ELSE IF results.value # <<>>
            THEN MultiKbLoop(Tail(kb_mappings), env,
                     Append(search_contexts,
                            SearchContext(mapping.kb_id, results.value,
                                          mapping.relevance_score)),
                     seen)
            ELSE MultiKbLoop(Tail(kb_mappings), env, search_contexts, seen)

\* multi_kb_search(query, kb_mappings, config)
SimpleMultiKbSearch(kb_mappings, env) == MultiKbLoop(kb_mappings, env, <<>>, <<>>)

\* Most mappings in a call; most calls made on one agent.
MaxSearchMappings == 2
MaxMultiKbCalls == 2

MkKbIds == {"ab", "cd"}
MkScores == {50, 100}
MkMinRelevance == 60

MkMappings ==
    UNION { [1..n -> { KBMappingResult(kb_id, score) : kb_id \in MkKbIds, score \in MkScores }] :
            n \in 0..MaxSearchMappings }

MkEnv(config, loads, kb_query) == [config |-> config, loads |-> loads, kb_query |-> kb_query]

MkEnvs ==
    { MkEnv(config, loads, kb_query) :
        config \in {NoConfig, ConfigWith(MkMinRelevance)},
        loads \in [MkKbIds -> BOOLEAN],
        kb_query \in QueryOutcomes }

MkRun(kb_mappings, outcome) ==
    [kb_mappings |-> kb_mappings, raised |-> outcome.raised, value |-> outcome.value,
     adjusted |-> outcome.adjusted]

\* One call of multi_kb_search on the agent.
MultiKbSearchCall ==
    /\ Len(mk_runs) < MaxMultiKbCalls
    /\ \E kb_mappings \in MkMappings :
        mk_runs' = Append(mk_runs, MkRun(kb_mappings, SimpleMultiKbSearch(kb_mappings, mk_env)))
    /\ UNCHANGED <<mk_env, map_vars, orch_vars, fb_vars, an_vars, nd_vars>>

MultiKbIdle ==
    /\ mk_env = MkEnv(NoConfig, [kb_id \in MkKbIds |-> FALSE], "empty")
    /\ mk_runs = <<>>

InitMultiKb ==
    /\ mk_env \in MkEnvs
    /\ mk_runs = <<>>

NextMultiKb == MultiKbSearchCall

-----------------------------------------------------------------------------
(* normalize_doc_id: StringNormalizer.normalize_doc_id of                  *)
(* backend/utils/string_nomalizer.py and the function of                   *)
(* scripts/test_normalise_doc_id.py, both called with use_hash=False.      *)
(* "eacute" stands for the one character e with an acute accent.           *)

NameChars == {"a", "A", "1", "'", "\"", "-", "_", ".", " ", "eacute"}

\* Longest filename of the model.
MaxNameLen == 3

Filenames == UNION { [1..n -> NameChars] : n \in 0..MaxNameLen }

UnnamedDoc == <<"u", "n", "n", "a", "m", "e", "d", "_", "d", "o", "c">>

IsQuote(c) == c \in {"'", "\""}

\* re.sub(r'[\'"]', '_', name)
ReplaceQuotes(name) == [i \in 1..Len(name) |-> IF IsQuote(name[i]) THEN "_" ELSE name[i]]

NdResult(raised, value) == [raised |-> raised, value |-> value]

\* StringNormalizer.normalize_doc_id(filename, use_hash=False)
NormalizeDocId(filename) ==
    IF filename = <<>> THEN NdResult(FALSE, UnnamedDoc)
    ELSE NdResult(FALSE, ReplaceQuotes(filename))

\* os.path.splitext(name)[0]: the name up to its last dot, unless only dots
\* come before that dot.
SplitExtRoot(name) ==
    LET dots == { i \in 1..Len(name) : name[i] = "." }
        last == CHOOSE i \in dots : \A j \in dots : j <= i
    IN  IF dots # {} /\ \E j \in 1..(last - 1) : name[j] # "."
        THEN SubSeq(name, 1, last - 1)
        ELSE name

\* unicodedata.normalize('NFKD', name).encode('ASCII', 'ignore').decode('utf-8')
RECURSIVE AsciiFold(_)
AsciiFold(name) ==
    IF name = <<>> THEN <<>>
    ELSE (IF Head(name) = "eacute" THEN <<"e">> ELSE <<Head(name)>>) \o AsciiFold(Tail(name))

\* [a-z0-9_] over the characters of the model
IsIdChar(c) == c \in {"a", "e", "1", "_"}

IsDashOrUnderscore(c) == c \in {"-", "_"}

\* re.sub(r'[^a-z0-9_]+', '-', name): every maximal run of other characters
\* becomes one dash.
DashOthers(name) ==
    LET other == { i \in 1..Len(name) : ~IsIdChar(name[i]) }
        kept == { i \in 1..Len(name) : i \notin other \/ (i - 1) \notin other }
        Nth(n) == CHOOSE i \in kept : Cardinality({ k \in kept : k < i }) = n - 1
    IN  [n \in 1..Cardinality(kept) |-> IF Nth(n) \in other THEN "-" ELSE name[Nth(n)]]

\* re.sub(r'[-_]+', '-', name)
CollapseDashes(name) ==
    LET run == { i \in 1..Len(name) : IsDashOrUnderscore(name[i]) }
        kept == { i \in 1..Len(name) : i \notin run \/ (i - 1) \notin run }
        Nth(n) == CHOOSE i \in kept : Cardinality({ k \in kept : k < i }) = n - 1
    IN  [n \in 1..Cardinality(kept) |-> IF Nth(n) \in run THEN "-" ELSE name[Nth(n)]]

\* name.strip('-')
StripDashes(name) ==
    LET others == { i \in 1..Len(name) : name[i] # "-" }
        first == CHOOSE i \in others : \A j \in others : i <= j
        last == CHOOSE i \in others : \A j \in others : j <= i
    IN  IF others = {} THEN <<>> ELSE SubSeq(name, first, last)

\* max_length of normalize_doc_id
MaxLength == 100

\* str.isalpha() of one character
IsAlpha(c) == c \in {"a", "e", "A"}

DocPrefix == <<"d", "o", "c", "-">>

\* normalize_doc_id(filename, use_hash=False) of the script; name[0] of an
\* empty name raises IndexError.
ScriptNormalizeDocId(filename) ==
    LET lowered == SplitExtRoot(Lower(filename))
        folded == AsciiFold(lowered)
        dashed == StripDashes(CollapseDashes(DashOthers(ReplaceQuotes(folded))))
        name == SubSeq(dashed, 1, Min(MaxLength, Len(dashed)))
    IN  IF filename = <<>> THEN NdResult(FALSE, UnnamedDoc)
        ELSE IF name = <<>> THEN NdResult(TRUE, <<>>)
        ELSE IF ~IsAlpha(name[1]) THEN NdResult(FALSE, DocPrefix \o name)
        ELSE NdResult(FALSE, name)

NdCall(function, filename) == [made |-> TRUE, function |-> function, filename |-> filename]

\* StringNormalizer.normalize_doc_id(filename, use_hash=False)
NormalizeDocIdCall ==
    /\ ~nd_call.made
    /\ \E filename \in Filenames :
        /\ nd_call' = NdCall("StringNormalizer.normalize_doc_id", filename)
        /\ nd_result' = NormalizeDocId(filename)
    /\ UNCHANGED <<map_vars, orch_vars, fb_vars, mk_vars, an_vars>>

\* normalize_doc_id(filename, use_hash=False) of the script
ScriptNormalizeDocIdCall ==
    /\ ~nd_call.made
    /\ \E filename \in Filenames :
        /\ nd_call' = NdCall("normalize_doc_id", filename)
        /\ nd_result' = ScriptNormalizeDocId(filename)
    /\ UNCHANGED <<map_vars, orch_vars, fb_vars, mk_vars, an_vars>>

NormalizerIdle ==
    /\ nd_call = [made |-> FALSE]
    /\ nd_result = NdResult(FALSE, <<>>)

NextNormalizer == NormalizeDocIdCall \/ ScriptNormalizeDocIdCall

-----------------------------------------------------------------------------
(* The session: process_message called on an orchestrator *)

OrchKbs == {KbAb, KbNormes}
OrchCatalogs == { <<>>, <<KbAb>>, <<KbNormes>>, <<KbAb, KbNormes>> }
OrchQueries == { QPlain, QMentionAb, QMentionNormes }

OrchFilters ==
    { NoFilter,
      SearchFilter(<<KbAb>>, <<>>),
      SearchFilter(<<KbNormes, KbAb>>, <<>>),
      SearchFilter(<<>>, <<DocIdsItem(KbNormes, <<"d1">>)>>) }

OrchRouteReplies ==
    { LlmRaises, ReplyNoBraces,
      Reply("json", <<>>),
      Reply("json", <<Mapping(KbAb, Num(80))>>),
      Reply("json", <<Mapping(KbNormes, Num(90))>>),
      Reply("json", <<Mapping(KbAb, Num(150)), Mapping(KbNormes, Num(80))>>) }

SomeCauses == <<"cause">>
SomeActions == <<"action">>

OrchAnalysisReplies ==
    { AnalysisReply("raise", <<>>, <<>>, <<>>),
      AnalysisReply("not_json", <<>>, <<>>, <<>>),
      AnalysisReply("json", SomeCauses, SomeActions, <<>>),
      AnalysisReply("json", SomeCauses, SomeActions, <<QMentionNormes>>),
      AnalysisReply("json", SomeCauses, SomeActions, <<QMentionAb, QMentionNormes>>) }

\* The inputs the call did not consume are left at their defaults.
UnusedRouteReply == ReplyNoBraces
UnusedAnalysisReply == AnalysisReply("not_json", <<>>, <<>>, <<>>)

Made(calls, ops) == \E i \in 1..Len(calls) : calls[i].op \in ops

Consumed(in, result) ==
    /\ Made(result.calls, {"llm_route"}) \/ in.route_reply = UnusedRouteReply
    /\ Made(result.calls, {"analyze_failed_search"})
           \/ in.analysis_reply = UnusedAnalysisReply
    /\ Made(result.calls, {"llm_answer"}) \/ ~in.answer_raises
    /\ Made(result.calls, {"search", "multi_kb_search"}) \/ ~in.search_raises

NoCall == [made |-> FALSE]

LastCall(in, result) ==
    [made |-> TRUE, in |-> in, calls |-> result.calls,
     kb_mappings |-> result.kb_mappings, raised |-> result.raised,
     message |-> result.message]

\* One process_message call, from its first line to its return or to the
\* exception that leaves it.
ProcessMessageCall(inputs) ==
    \E in \in inputs :
        LET result == ProcessMessage(conversation_history, catalog, kb_content, in)
        IN  /\ Consumed(in, result)
            /\ conversation_history' = result.history
            /\ last_call' = LastCall(in, result)
            /\ turn' = turn + 1
            /\ UNCHANGED <<catalog, kb_content, map_vars, fb_vars, mk_vars, an_vars, nd_vars>>

OrchInputs ==
    { CallInput(m, f, rr, ar, a, k, sr) :
        m \in OrchQueries, f \in OrchFilters, rr \in OrchRouteReplies,
        ar \in OrchAnalysisReplies, a \in BOOLEAN, k \in BOOLEAN, sr \in BOOLEAN }

FirstMessage ==
    /\ turn = 0
    /\ ProcessMessageCall(OrchInputs)

\* Most process_message calls in a session.
MaxTurns == 2

\* The calls of a session: with and without a filter, a router that maps
\* "ab" or nothing, a backend and a kb_manager that work or raise.
SessionInputs ==
    { CallInput(m, f, rr, UnusedAnalysisReply, a, k, FALSE) :
        m \in {QPlain, QMentionAb},
        f \in {NoFilter, SearchFilter(<<KbAb>>, <<>>)},
        rr \in {ReplyNoBraces, Reply("json", <<Mapping(KbAb, Num(80))>>)},
        a \in BOOLEAN, k \in BOOLEAN }

\* One more process_message call of the session.
SessionMessage ==
    /\ turn < MaxTurns
    /\ ProcessMessageCall(SessionInputs)

NextSession == SessionMessage

\* Calls of analyze_failed_search, on their own.
AnContexts == { <<>>, <<SearchContext(KbAb, <<"d1">>, 80)>> }

AnCall(original_query, available_kbs, search_contexts, reply) ==
    [made |-> TRUE, original_query |-> original_query, available_kbs |-> available_kbs,
     search_contexts |-> search_contexts, reply |-> reply]

\* The replies of the backend: those of the session, and the JSON object
\* asked for with empty lists.
AnReplies == OrchAnalysisReplies \cup { AnalysisReply("json", <<>>, <<>>, <<QPlain>>) }

\* analyze_failed_search(original_query, available_kbs, search_contexts)
AnalyzeFailedSearchCall ==
    /\ ~an_call.made
    /\ \E original_query \in OrchQueries, available_kbs \in OrchCatalogs,
          search_contexts \in AnContexts, reply \in AnReplies :
        /\ an_call' = AnCall(original_query, available_kbs, search_contexts, reply)
        /\ an_outcome' = AnalyzeFailedSearch(original_query, available_kbs,
                                             search_contexts, reply)
    /\ UNCHANGED <<map_vars, orch_vars, fb_vars, mk_vars, nd_vars>>

AnalyzerIdle ==
    /\ an_call = NoCall
    /\ an_outcome = AnalysisOutcome(FALSE, HandleNoKbCase, 0)

NextAnalyzer == AnalyzeFailedSearchCall

MapperIdle ==
    /\ map_pc = "idle"
    /\ map_catalog = <<>>
    /\ map_query = QPlain
    /\ map_min_relevance = DefaultMinRelevance
    /\ map_response = LlmRaises
    /\ map_result = IdleOutcome

Init ==
    /\ catalog \in OrchCatalogs
    /\ kb_content \in SUBSET (OrchQueries \X OrchKbs)
    /\ conversation_history = <<>>
    /\ turn = 0
    /\ last_call = NoCall
    /\ MapperIdle
    /\ FallbackIdle
    /\ MultiKbIdle
    /\ AnalyzerIdle
    /\ NormalizerIdle

Next == FirstMessage

Spec == Init /\ [][Next]_vars

OrchIdle ==
    /\ catalog = <<>>
    /\ kb_content = {}
    /\ conversation_history = <<>>
    /\ turn = 0
    /\ last_call = NoCall

InitMapper ==
    /\ map_pc = "idle"
    /\ map_catalog \in Catalogs
    /\ map_query \in Queries
    /\ map_min_relevance = DefaultMinRelevance
    /\ map_response = LlmRaises
    /\ map_result = IdleOutcome
    /\ OrchIdle
    /\ FallbackIdle
    /\ MultiKbIdle
    /\ AnalyzerIdle
    /\ NormalizerIdle

NextMapper == MapCall

\* A session of several process_message calls on one orchestrator.
SpecSession == Init /\ [][NextSession]_vars

SpecMapper == InitMapper /\ [][NextMapper]_vars

\* The two variants of the router that cap their result.
NextMapperCapped == MapCall \/ SimpleMapCall

SpecMapperCapped == InitMapper /\ [][NextMapperCapped]_vars

NextMapperCopy2 == Copy2MapCall

SpecMapperCopy2 == InitMapper /\ [][NextMapperCopy2]_vars

\* Calls of _combined_fallback_search, on their own.
InitFallbackOnly ==
    /\ InitFallback
    /\ MapperIdle
    /\ OrchIdle
    /\ MultiKbIdle
    /\ AnalyzerIdle
    /\ NormalizerIdle

SpecFallback == InitFallbackOnly /\ [][NextFallback]_vars

\* Calls of multi_kb_search, on their own.
InitMultiKbOnly ==
    /\ InitMultiKb
    /\ MapperIdle
    /\ OrchIdle
    /\ FallbackIdle
    /\ AnalyzerIdle
    /\ NormalizerIdle

SpecMultiKb == InitMultiKbOnly /\ [][NextMultiKb]_vars

-----------------------------------------------------------------------------
(* analyze_failed_search, on its own *)

InitAnalyzerOnly ==
    /\ AnalyzerIdle
    /\ NormalizerIdle
    /\ MapperIdle
    /\ OrchIdle
    /\ FallbackIdle
    /\ MultiKbIdle

SpecAnalyzer == InitAnalyzerOnly /\ [][NextAnalyzer]_vars

\* Calls of normalize_doc_id, on their own.
InitNormalizerOnly ==
    /\ NormalizerIdle
    /\ MapperIdle
    /\ OrchIdle
    /\ FallbackIdle
    /\ MultiKbIdle
    /\ AnalyzerIdle

SpecNormalizer == InitNormalizerOnly /\ [][NextNormalizer]_vars

-----------------------------------------------------------------------------
(* Claims about map_query_to_kbs, checked under SpecMapper and, for C5,     *)
(* under SpecMapperCopy2                                                   *)

MapDone == map_pc = "done"

KbIdsOf(value) == { value[i].kb_id : i \in 1..Len(value) }
CatalogIds(available_kbs) == { available_kbs[i] : i \in 1..Len(available_kbs) }

\* The deterministic default mapping: every catalog entry, at one score.
IsCatalogWide(value, available_kbs) ==
    /\ KbIdsOf(value) = CatalogIds(available_kbs)
    /\ \A i, j \in 1..Len(value) : value[i].relevance_score = value[j].relevance_score

\* The id occurs in the query as a case-insensitive substring.
MentionsId(query, kb_id) ==
    \E i \in 1..(Len(query) + 1), j \in 0..Len(query) :
        SubSeq(Lower(query), i, j) = Lower(kb_id)

\* The scores the backend's reply gives to the base kb_id.
AssignedScores(response, kb_id) ==
    { response.mappings[i].relevance_score.v :
        i \in { k \in 1..Len(response.mappings) :
                  /\ response.mappings[k].dict
                  /\ response.mappings[k].relevance_score.t = "num"
                  /\ Strip(response.mappings[k].kb_id) = kb_id } }

\* C5: when make_llm_call raises during map_query_to_kbs, the call returns a
\* list (empty, or the catalog-wide fallback) and no exception leaves it.
C5_RoutingDegrades ==
    (MapDone /\ map_result.llm_calls = 1 /\ map_response.kind = "raise")
        => /\ ~map_result.raised
           /\ \/ map_result.value = <<>>
              \/ IsCatalogWide(map_result.value, map_catalog)

\* C6: with a non-empty catalog and a reply that cannot be parsed (neither
\* directly nor after brace extraction), map_query_to_kbs does not raise and
\* returns the non-empty default mapping (all catalog entries at one score).
C6_ParseFailureFallback ==
    (MapDone /\ map_catalog # <<>> /\ Unparseable(map_response))
        => /\ ~map_result.raised
           /\ map_result.value # <<>>
           /\ IsCatalogWide(map_result.value, map_catalog)

\* C7: every returned KBMappingResult has relevance_score >= the min_relevance
\* argument of the call.
C7_ThresholdInvariant ==
    MapDone =>
        \A i \in 1..Len(map_result.value) :
            map_result.value[i].relevance_score >= map_min_relevance

SortedDescending(value) ==
    \A i \in 1..(Len(value) - 1) :
        value[i].relevance_score >= value[i + 1].relevance_score

C9_RetentionFilter ==
    MapDone =>
        \A kb_id \in CatalogIds(map_catalog) :
            ( /\ ~MentionsId(map_query, kb_id)
              /\ AssignedScores(map_response, kb_id) # {}
              /\ \A s \in AssignedScores(map_response, kb_id) : s < 60 )
                => kb_id \notin KbIdsOf(map_result.value)

\* C10: a returned base whose id occurs in the query (case-insensitively) has
\* relevance_score exactly 1.0, whatever score the backend gave it.
C10_MentionOverrideScore ==
    MapDone =>
        \A i \in 1..Len(map_result.value) :
            MentionsId(map_query, map_result.value[i].kb_id)
                => map_result.value[i].relevance_score = 100

\* A mentioned base that the backend scored 0.3 is returned at 1.0.
C10_Witness ==
    /\ MapDone
    /\ \E i \in 1..Len(map_result.value) :
        /\ MentionsId(map_query, map_result.value[i].kb_id)
        /\ 30 \in AssignedScores(map_response, map_result.value[i].kb_id)
        /\ map_result.value[i].relevance_score = 100

\* C11: a catalog base whose id occurs in the query (case-insensitively) is
\* in the list map_query_to_kbs returns, whatever the backend replied.
C11_MentionPresence ==
    MapDone =>
        \A kb_id \in CatalogIds(map_catalog) :
            MentionsId(map_query, kb_id) => kb_id \in KbIdsOf(map_result.value)

\* C12: for every catalog and every backend reply, map_query_to_kbs returns
\* at most 2 mappings.
C12_FanOutCap == MapDone => Len(map_result.value) <= 2

\* Three mappings of the reply qualified and two were returned.
C12_Witness ==
    /\ MapDone
    /\ map_response.kind = "json"
    /\ Len(map_response.mappings) = 3
    /\ \A i \in 1..3 :
           /\ map_response.mappings[i].dict
           /\ map_response.mappings[i].kb_id \in CatalogIds(map_catalog)
           /\ "relevance_score" \in DOMAIN map_response.mappings[i]
               => map_response.mappings[i].relevance_score.t = "num"
           /\ "has_keys" \in DOMAIN map_response.mappings[i]
               => map_response.mappings[i].has_keys
    /\ Len(map_result.value) = 2

\* The reply is the structured payload and each of its mappings is an object.
WellFormedReply(response) ==
    /\ response.kind \in {"json", "embedded"}
    /\ \A i \in 1..Len(response.mappings) : response.mappings[i].dict

\* The catalog base kb_id meets the minimum threshold: the query mentions it
\* and the reply lists it, or the reply gives it a score of at least 0.6.
Qualifies(kb_id) ==
    /\ kb_id \in CatalogIds(map_catalog)
    /\ AssignedScores(map_response, kb_id) # {}
    /\ \/ MentionsId(map_query, kb_id)
       \/ \E sc \in AssignedScores(map_response, kb_id) : sc >= 60

\* "normes" qualifies together with at least one other base.
NormesAndAnother ==
    /\ MapDone
    /\ WellFormedReply(map_response)
    /\ Qualifies(KbNormes)
    /\ \E kb_id \in CatalogIds(map_catalog) : kb_id # KbNormes /\ Qualifies(kb_id)

\* The element at position i of the result is a best-scoring other base.
BestOtherAt(i) ==
    /\ map_result.value[i].kb_id # KbNormes
    /\ \A kb_id \in CatalogIds(map_catalog) \ {KbNormes} :
           \A sc \in AssignedScores(map_response, kb_id) :
               map_result.value[i].relevance_score >= Min(100, sc)

-----------------------------------------------------------------------------
(* Claims about process_message, checked under Spec *)

CallMade == last_call.made

\* No collaborator fails during the call.
NothingRaises(in) ==
    /\ ~in.kb_manager_raises /\ ~in.search_raises /\ ~in.answer_raises
    /\ in.route_reply.kind # "raise"
    /\ in.analysis_reply.kind # "raise"

\* The queries of the multi_kb_search calls, in order.
SearchedQueries(calls) ==
    LET IsSearch(c) == c.op = "multi_kb_search"
        searches == SelectSeq(calls, IsSearch)
    IN  [i \in 1..Len(searches) |-> searches[i].query]

\* What a mapped search of query finds in the bases as they are.
WouldFind(query) == MultiKbSearch(query, last_call.kb_mappings, catalog, kb_content)

\* C1: no filter, a non-empty catalog and at least one mapping; the original
\* query finds nothing, the backend's analysis offers [q1, q2], q1 finds
\* nothing and q2 finds passages: process_message returns the answer built
\* from q2's contexts (query_reformulation.successful = q2) and the search for
\* q2 is its last search.
C1_ReformulationShortCircuit ==
    ( /\ CallMade
      /\ NothingRaises(last_call.in)
      /\ ~HasFilters(last_call.in.search_filter)
      /\ catalog # <<>>
      /\ last_call.kb_mappings # <<>>
      /\ WouldFind(last_call.in.message) = <<>>
      /\ last_call.in.analysis_reply.kind = "json"
      /\ Len(last_call.in.analysis_reply.reformulations) = 2
      /\ WouldFind(last_call.in.analysis_reply.reformulations[1]) = <<>>
      /\ WouldFind(last_call.in.analysis_reply.reformulations[2]) # <<>> )
    => LET q1 == last_call.in.analysis_reply.reformulations[1]
           q2 == last_call.in.analysis_reply.reformulations[2]
       IN  /\ ~last_call.raised
           /\ last_call.message.metadata.successful = q2
           /\ last_call.message.metadata.sources =
                  [i \in 1..Len(WouldFind(q2)) |->
                      Source(WouldFind(q2)[i].kb_id, WouldFind(q2)[i].results)]
           /\ SearchedQueries(last_call.calls) = <<last_call.in.message, q1, q2>>

\* C2: when list_knowledge_bases() is empty, with or without a filter,
\* process_message returns a Message whose failure_analysis.type is "no_kb",
\* and the backend is never called for routing.
C2_NoCatalogSafety ==
    (CallMade /\ catalog = <<>> /\ ~last_call.in.kb_manager_raises)
        => /\ ~last_call.raised
           /\ last_call.message.role = "assistant"
           /\ last_call.message.metadata.kind = "failure_analysis"
           /\ last_call.message.metadata.failure_type = "no_kb"
           /\ ~Made(last_call.calls, {"llm_route"})

\* The router was asked, on an empty catalog, and the answer is the no_kb one.
C2_Witness ==
    /\ CallMade /\ catalog = <<>>
    /\ Made(last_call.calls, {"map_query_to_kbs"})
    /\ last_call.message.metadata.failure_type = "no_kb"

\* C3: with a non-empty catalog, when the search step produced no
\* SearchContext and no retry succeeds, the returned failure analysis has
\* type "no_results".
C3_NoResultsKind ==
    ( /\ CallMade
      /\ NothingRaises(last_call.in)
      /\ catalog # <<>>
      /\ ~last_call.raised
      /\ Made(last_call.calls, {"search", "multi_kb_search"})
      /\ last_call.message.metadata.kind = "failure_analysis" )
    => last_call.message.metadata.failure_type = "no_results"

\* C4: process_message always ends by returning an assistant Message; an
\* exception raised by a collaborator does not leave it.
C4_AlwaysReturnsMessage ==
    CallMade => (~last_call.raised /\ last_call.message.role = "assistant")
-----------------------------------------------------------------------------
(* Claims about _combined_fallback_search, checked under SpecFallback *)

\* The passage key: (doc_id, first 100 characters of the text).
PassageKey(result) ==
    <<result.doc_id, SubSeq(result.text, 1, Min(100, Len(result.text)))>>

\* No passage key appears twice in a returned list.
NoDuplicateKey ==
    \A r \in 1..Len(fb_runs) :
        \A i, j \in 1..Len(fb_runs[r].value) :
            i # j => PassageKey(fb_runs[r].value[i]) # PassageKey(fb_runs[r].value[j])

\* Two calls with identical inputs return identical lists.
SameOutputTwice ==
    \A r1, r2 \in 1..Len(fb_runs) : fb_runs[r1].value = fb_runs[r2].value

\* C14: in every list _combined_fallback_search returns no passage key
\* appears twice, and running the search twice on identical inputs yields
\* identical output.
C14_DedupAndDeterminism == NoDuplicateKey /\ SameOutputTwice

\* The doc_ids of a returned list.
DocIdsIn(value) == { value[i].doc_id : i \in 1..Len(value) }

\* C15 as stated: with max_segments_per_doc = N, for every integer N the
\* config accepts, no doc_id appears more than N times in the returned list.
C15_PerDocCapAnyN ==
    \A r \in 1..Len(fb_runs) :
        \A doc_id \in DocIdsIn(fb_runs[r].value) :
            CountDoc(fb_runs[r].value, doc_id) <= fb_call.config.max_segments_per_doc

\* C15 amended: with max_segments_per_doc = N and N >= 1, no doc_id appears
\* more than N times in the returned list (N <= 0 switches the limit off).
C15_PerDocCapPositiveN ==
    \A r \in 1..Len(fb_runs) :
        fb_call.config.max_segments_per_doc >= 1 =>
            \A doc_id \in DocIdsIn(fb_runs[r].value) :
                CountDoc(fb_runs[r].value, doc_id) <= fb_call.config.max_segments_per_doc

\* A call with N = 1 returned one passage of a document of which the same
\* call without a limit returns several.
C15_Witness ==
    /\ fb_runs # <<>>
    /\ fb_call.config.max_segments_per_doc = 1
    /\ CountDoc(fb_runs[1].value, DocD) = 1
    /\ CountDoc(RunFallback([fb_call EXCEPT !.config.max_segments_per_doc = 0],
                            fb_runs[1].hash_seed).value, DocD) > 1

\* What the two strategies produced in run r, before the merge.
VectorProduced(r) ==
    IF GetKeywords(fb_call.query, fb_runs[r].hash_seed) = <<>> THEN <<>>
    ELSE KbResults(fb_call.kb, fb_call.search, fb_call.config)

KeywordProduced(r) ==
    LET keywords == GetKeywords(fb_call.query, fb_runs[r].hash_seed)
    IN  IF keywords = <<>> THEN <<>>
        ELSE KeywordResults(fb_call.kb, DocIds(fb_call.kb), fb_call.metadata_filter,
                            keywords, fb_call.config)

KeysOf(results) == { PassageKey(results[i]) : i \in 1..Len(results) }

\* The first element of results that has the passage key key.
FirstWithKey(results, key) ==
    results[CHOOSE i \in 1..Len(results) :
                /\ PassageKey(results[i]) = key
                /\ \A j \in 1..(i - 1) : PassageKey(results[j]) # key]

\* The per-document limit leaves no room for another passage of doc_id.
DocIsFull(value, doc_id) ==
    /\ fb_call.config.max_segments_per_doc >= 1
    /\ CountDoc(value, doc_id) = fb_call.config.max_segments_per_doc

\* A returned passage whose key the vector strategy produced is the vector
\* instance, with its similarity as score.
VectorInstanceKept(r) ==
    \A i \in 1..Len(fb_runs[r].value) :
        PassageKey(fb_runs[r].value[i]) \in KeysOf(VectorProduced(r))
            => fb_runs[r].value[i]
                   = FirstWithKey(VectorProduced(r), PassageKey(fb_runs[r].value[i]))

\* A passage only the keyword strategy produced is returned with 0.9 times
\* its keyword score, unless the per-document limit cut it.
KeywordOnlyPenalized(r) ==
    \A key \in KeysOf(KeywordProduced(r)) \ KeysOf(VectorProduced(r)) :
        LET produced == FirstWithKey(KeywordProduced(r), key)
        IN  \/ DocIsFull(fb_runs[r].value, produced.doc_id)
            \/ \E i \in 1..Len(fb_runs[r].value) :
                   /\ PassageKey(fb_runs[r].value[i]) = key
                   /\ fb_runs[r].value[i].strategy = "keyword"
                   /\ 10 * fb_runs[r].value[i].relevance_score
                          = 9 * produced.relevance_score

\* C16: a passage key produced by both strategies is returned as the vector
\* instance with its unpenalized similarity; a passage produced by the
\* keyword strategy only is returned with exactly 0.9 times its keyword
\* score; no vector score is penalized.
C16_MergeRule ==
    \A r \in 1..Len(fb_runs) : VectorInstanceKept(r) /\ KeywordOnlyPenalized(r)

\* The try block of step 1 was left through its except clause: kb.search
\* raised, or a lookup made for a hit at or above the floor raised.
KbQueryFailed(call) ==
    \/ call.search.raises
    \/ \E i \in 1..Len(call.search.hits) :
          /\ call.search.hits[i].similarity >= call.config.fallback_min_relevance
          /\ call.search.hits[i].lookup_raises

KeywordOnly(value) == \A j \in 1..Len(value) : value[j].strategy = "keyword"

\* C17: when kb.search, or a chunk lookup made while its hits are collected,
\* raises, _combined_fallback_search does not raise and every passage of its
\* output was built by the keyword search.
C17_RetrievalDegradation ==
    \A i \in 1..Len(fb_runs) :
        KbQueryFailed(fb_call) =>
            /\ ~fb_runs[i].raised
            /\ KeywordOnly(fb_runs[i].value)

-----------------------------------------------------------------------------
(* Claims about multi_kb_search, checked under SpecMultiKb *)

\* The base of the mapping loads and its search returns passages.
YieldsPassages(mapping) == mk_env.loads[mapping.kb_id] /\ mk_env.kb_query = "passages"

NoBaseYields(kb_mappings) ==
    \A i \in 1..Len(kb_mappings) : ~YieldsPassages(kb_mappings[i])

\* C18: multi_kb_search never raises, whatever the mappings, the bases that
\* load and the outcome of their searches, and it returns the empty list when
\* no base yields passages.
C18_NeverSignalsError ==
    \A i \in 1..Len(mk_runs) :
        /\ ~mk_runs[i].raised
        /\ NoBaseYields(mk_runs[i].kb_mappings) => mk_runs[i].value = <<>>

\* The adjusted configurations built by the calls made so far.
AllAdjusted == UNION { { mk_runs[i].adjusted[j] : j \in 1..Len(mk_runs[i].adjusted) } : i \in 1..Len(mk_runs) }

\* C19: of two bases searched with the same SearchConfig, the one with the
\* lower mapping score gets a min_relevance at least as high as the other's.
C19_WeakerMappingStricterFloor ==
    \A a \in AllAdjusted, b \in AllAdjusted :
        a.mapping_score < b.mapping_score => a.min_relevance >= b.min_relevance

-----------------------------------------------------------------------------
(* Claims about analyze_failed_search, checked under SpecAnalyzer *)

BackendFails(reply) == reply.kind \in {"raise", "not_json"}

NoResultsCase(call) == call.available_kbs # <<>> /\ call.search_contexts = <<>>

\* C20: analyze_failed_search never raises; when the backend call raises or
\* its reply is not the JSON asked for, the NoResults case returns the default
\* analysis, and the LowRelevance case returns an analysis too.
C20_AnalyzerNeverRaises ==
    an_call.made =>
        /\ ~an_outcome.raised
        /\ (NoResultsCase(an_call) /\ BackendFails(an_call.reply)) =>
               an_outcome.analysis = DefaultNoResultsAnalysis(an_call.original_query)

\* C21: every SearchFailureAnalysis that analyze_failed_search returns has a
\* non-empty possible_causes list and a non-empty suggested_actions list.
C21_CausesAndActionsNonEmpty ==
    (an_call.made /\ ~an_outcome.raised) =>
        /\ an_outcome.analysis.possible_causes # <<>>
        /\ an_outcome.analysis.suggested_actions # <<>>

-----------------------------------------------------------------------------
(* More claims about process_message, checked under Spec *)

FilterKbIds(f) == { GetKbIds(f)[i] : i \in 1..Len(GetKbIds(f)) }

\* C22: a call with a SearchFilter whose has_filters() is true never invokes
\* the router (map_query_to_kbs, and with it the routing backend call) and
\* searches only bases whose id is in search_filter.get_kb_ids().
C22_FilterBypassesRouting ==
    (CallMade /\ HasFilters(last_call.in.search_filter)) =>
        \A i \in 1..Len(last_call.calls) :
            LET c == last_call.calls[i]
            IN  /\ c.op \notin {"map_query_to_kbs", "llm_route", "multi_kb_search"}
                /\ c.op = "search" => c.kb_id \in FilterKbIds(last_call.in.search_filter)

C22_Witness ==
    /\ CallMade
    /\ HasFilters(last_call.in.search_filter)
    /\ ~last_call.raised
    /\ Made(last_call.calls, {"search"})
    /\ last_call.message.metadata.kind = "sources"

\* What a filtered search of query finds in the bases as they are.
WouldFindFiltered(query) ==
    LET f == last_call.in.search_filter
    IN  FilteredSearch(GetKbIds(f), query, f, catalog, kb_content, FALSE, <<>>, <<>>).contexts

\* The queries of the search calls made for the listed bases, in order.
FilteredQueries(calls) ==
    LET IsSearch(c) == c.op = "search"
        searches == SelectSeq(calls, IsSearch)
    IN  [i \in 1..Len(searches) |-> searches[i].query]

\* C23: with an explicit filter, when the filtered search of the message
\* yields no SearchContext and the backend's analysis offers reformulated
\* queries of which one finds passages, process_message searches the listed
\* bases again with the reformulated queries and returns the answer built
\* from the first one that finds passages.
C23_FilteredRetry ==
    ( /\ CallMade
      /\ NothingRaises(last_call.in)
      /\ HasFilters(last_call.in.search_filter)
      /\ catalog # <<>>
      /\ WouldFindFiltered(last_call.in.message) = <<>>
      /\ last_call.in.analysis_reply.kind = "json"
      /\ \E k \in 1..Len(last_call.in.analysis_reply.reformulations) :
            WouldFindFiltered(last_call.in.analysis_reply.reformulations[k]) # <<>> )
    => LET queries == last_call.in.analysis_reply.reformulations
           first == CHOOSE k \in 1..Len(queries) :
                        /\ WouldFindFiltered(queries[k]) # <<>>
                        /\ \A j \in 1..(k - 1) : WouldFindFiltered(queries[j]) = <<>>
       IN  /\ ~last_call.raised
           /\ last_call.message.metadata.successful = queries[first]
           /\ \E i \in 1..Len(FilteredQueries(last_call.calls)) :
                 FilteredQueries(last_call.calls)[i] = queries[first]

\* The SearchContexts the search step of the call produces for the message.
FoundContexts ==
    IF HasFilters(last_call.in.search_filter)
    THEN WouldFindFiltered(last_call.in.message)
    ELSE WouldFind(last_call.in.message)

SourcesOf(search_contexts) ==
    [i \in 1..Len(search_contexts) |->
        Source(search_contexts[i].kb_id, search_contexts[i].results)]

AnswerCalls(calls) == Cardinality({ i \in 1..Len(calls) : calls[i].op = "llm_answer" })

\* The call ended with non-empty SearchContexts and no collaborator failed.
EndsWithContexts ==
    /\ CallMade
    /\ ~last_call.in.kb_manager_raises
    /\ ~last_call.in.search_raises
    /\ ~last_call.in.answer_raises
    /\ FoundContexts # <<>>

\* C24: when process_message ends with non-empty SearchContexts, the backend
\* is called exactly once for the answer and metadata.sources of the returned
\* Message has one entry per SearchContext, in their order, with the
\* context's kb_id; with the catalog ["normes"] mapped and passages found,
\* sources is the single entry of "normes".
C24_AnswerSynthesis ==
    EndsWithContexts =>
        /\ ~last_call.raised
        /\ AnswerCalls(last_call.calls) = 1
        /\ last_call.message.metadata.sources = SourcesOf(FoundContexts)
        /\ (catalog = <<KbNormes>> /\ ~HasFilters(last_call.in.search_filter)) =>
              /\ Len(last_call.message.metadata.sources) = 1
              /\ last_call.message.metadata.sources[1].kb_id = KbNormes

\* The normes scenario: the catalog ["normes"], mapped at 0.9, passages found.
C24_Witness ==
    /\ EndsWithContexts
    /\ catalog = <<KbNormes>>
    /\ ~HasFilters(last_call.in.search_filter)
    /\ last_call.kb_mappings = <<KBMappingResult(KbNormes, 90)>>
    /\ last_call.message.metadata.sources = <<Source(KbNormes, <<"d1">>)>>

-----------------------------------------------------------------------------
(* More claims about _combined_fallback_search, checked under SpecFallback *)

\* The call of the scenario: the query "annual safety report 2023" on the base
\* of the passage, which the vector search does not return.
AnnualReportCall ==
    /\ fb_call.made
    /\ fb_call.query = QueryAnnualReport
    /\ fb_call.kb = KbSafetyReport
    /\ KbResults(fb_call.kb, fb_call.search, fb_call.config) = <<>>

\* min(1.0, 3/4 + 0.1) x 0.9, in hundredths.
AnnualReportScore == (Min(100, (3 * 100) \div 4 + PairBonus) * KeywordPenaltyTenths) \div 10

\* C25: in the scenario the passage is in the merged result of every run and
\* carries the score min(1.0, 3/4 + 0.1) x 0.9.
C25_KeywordOnlyScore ==
    AnnualReportCall =>
        \A i \in 1..Len(fb_runs) :
            /\ \E j \in 1..Len(fb_runs[i].value) : fb_runs[i].value[j].text = TextSafetyReport
            /\ \A j \in 1..Len(fb_runs[i].value) :
                  fb_runs[i].value[j].text = TextSafetyReport =>
                      fb_runs[i].value[j].relevance_score = AnnualReportScore

-----------------------------------------------------------------------------
(* Claims about conversation_history, checked under SpecSession *)

IsPrefix(s, t) == Len(s) <= Len(t) /\ SubSeq(t, 1, Len(s)) = s

\* C26: every process_message call leaves the Messages already in
\* conversation_history as they are, in their places, and appends the user's
\* message right after them, whether it returns or raises.
C26_HistoryAppendOnly ==
    [][ /\ IsPrefix(conversation_history, conversation_history')
        /\ Len(conversation_history') > Len(conversation_history)
        /\ conversation_history'[Len(conversation_history) + 1] =
               Message("user", last_call'.in.message, NoMetadata) ]_vars

\* A second call made after a direct success: the history holds the first
\* exchange and the second user message.
C26_Witness ==
    /\ turn = 2
    /\ Len(conversation_history) >= 3
    /\ conversation_history[2].role = "assistant"
    /\ conversation_history[3].role = "user"

-----------------------------------------------------------------------------
(* Claims about normalize_doc_id, checked under SpecNormalizer *)

HasQuote(value) == \E i \in 1..Len(value) : IsQuote(value[i])

\* C27: normalize_doc_id(filename, use_hash=False) returns "unnamed_doc" for
\* the empty filename and, for every other filename, a string that holds
\* neither an apostrophe nor a double quote.
C27_NoQuoteInDocId ==
    nd_call.made =>
        /\ ~nd_result.raised
        /\ nd_call.filename = <<>> => nd_result.value = UnnamedDoc
        /\ nd_call.filename # <<>> => ~HasQuote(nd_result.value)

-----------------------------------------------------------------------------
(* Order of the result of _combined_fallback_search, under SpecFallback *)

\* The merged passages of a call, before the sort and the limit.
MergedOf(call, hash_seed) ==
    LET keywords == GetKeywords(call.query, hash_seed)
        kb_results == KbResults(call.kb, call.search, call.config)
        keyword_results == KeywordResults(call.kb, DocIds(call.kb), call.metadata_filter,
                                          keywords, call.config)
        vector == MergeUnseen(kb_results, <<>>, {}, FALSE)
    IN  IF keywords = <<>> THEN <<>>
        ELSE MergeUnseen(keyword_results, vector.all_results, vector.seen_chunks,
                         TRUE).all_results

NonIncreasing(value) ==
    \A j \in 1..Len(value), k \in 1..Len(value) :
        j < k => value[j].relevance_score >= value[k].relevance_score

InValue(value, r) == \E j \in 1..Len(value) : value[j] = r

\* Every passage left out has as many passages of its document, with scores
\* at least as high, in value as the limit allows.
DroppedAreLowest(merged, value, limit) ==
    \A m \in 1..Len(merged) :
        ~InValue(value, merged[m]) =>
            /\ limit > 0
            /\ Cardinality({ j \in 1..Len(value) :
                   /\ value[j].doc_id = merged[m].doc_id
                   /\ value[j].relevance_score >= merged[m].relevance_score }) = limit

\* value holds passages of merged only, each once.
OnlyMerged(merged, value) ==
    /\ \A j \in 1..Len(value) : InValue(merged, value[j])
    /\ \A j \in 1..Len(value), k \in 1..Len(value) : value[j] = value[k] => j = k

IndexIn(merged, r) == CHOOSE m \in 1..Len(merged) : merged[m] = r

\* Passages of equal score are in the order in which they were merged.
TiesInMergeOrder(merged, value) ==
    \A j \in 1..Len(value), k \in 1..Len(value) :
        (j < k /\ value[j].relevance_score = value[k].relevance_score) =>
            IndexIn(merged, value[j]) < IndexIn(merged, value[k])

OrderedAndCapped(merged, value, limit) ==
    /\ NonIncreasing(value)
    /\ OnlyMerged(merged, value)
    /\ TiesInMergeOrder(merged, value)
    /\ DroppedAreLowest(merged, value, limit)

\* C28: the list _combined_fallback_search returns is sorted by non-increasing
\* relevance_score, and the limit keeps, of each document, its highest-scoring
\* passages of the merged set.
C28_SortedAndCapped ==
    \A i \in 1..Len(fb_runs) :
        OrderedAndCapped(MergedOf(fb_call, fb_runs[i].hash_seed), fb_runs[i].value,
                         fb_call.config.max_segments_per_doc)

\* The limit left a passage out and the list holds passages of two scores.
C28_Witness ==
    /\ fb_runs # <<>>
    /\ Len(fb_runs[1].value) >= 2
    /\ fb_runs[1].value[1].relevance_score > fb_runs[1].value[2].relevance_score
    /\ Len(fb_runs[1].value) < Len(MergedOf(fb_call, fb_runs[1].hash_seed))

-----------------------------------------------------------------------------
(* The shape of multi_kb_search's output, checked under SpecMultiKb *)

\* The mappings whose base loads and whose search returns passages, in the
\* order of the input list.
YieldingMappings(kb_mappings) ==
    SelectSeq(kb_mappings, LAMBDA mapping : YieldsPassages(mapping))

\* value holds one SearchContext per mapping of expected, in the same order,
\* named after the mapping's base and carrying its relevance_score.
OneContextPerMapping(value, expected) ==
    /\ Len(value) = Len(expected)
    /\ \A j \in 1..Len(expected) :
        /\ value[j].kb_id = expected[j].kb_id
        /\ value[j].mapping_score = expected[j].relevance_score
        /\ value[j].results # <<>>

\* C29: multi_kb_search returns exactly one SearchContext for each listed base
\* that loaded and returned at least one passage, in the order of the input
\* mappings, each with mapping_score equal to the mapping's relevance_score;
\* a base that fails to load is skipped and the bases after it are searched.
C29_OneContextPerYieldingBase ==
    \A i \in 1..Len(mk_runs) :
        /\ ~mk_runs[i].raised
        /\ OneContextPerMapping(mk_runs[i].value, YieldingMappings(mk_runs[i].kb_mappings))

-----------------------------------------------------------------------------
(* Which replies are recorded in conversation_history, checked under        *)
(* SpecSession                                                             *)

LastOfHistory == conversation_history[Len(conversation_history)]

\* The returned Message is the answer of the direct-success path: its
\* metadata holds the sources and no query_reformulation.
DirectSuccess(message) == message.metadata.kind = "sources"

\* C30: when process_message returns a failure-analysis Message or an answer
\* obtained through a reformulated query, the returned Message is not
\* appended and conversation_history ends with the user's message of the
\* call; after a direct success it ends with the returned assistant Message.
C30_ReplyRecordedOnDirectSuccessOnly ==
    (CallMade /\ ~last_call.raised) =>
        /\ conversation_history # <<>>
        /\ IF DirectSuccess(last_call.message)
           THEN LastOfHistory = last_call.message
           ELSE LastOfHistory = Message("user", last_call.in.message, NoMetadata)

\* A direct success followed by a call that returns a failure analysis: the
\* history holds the first exchange and ends with the second user message.
C30_Witness ==
    /\ turn = 2
    /\ ~last_call.raised
    /\ last_call.message.metadata.kind = "failure_analysis"
    /\ Len(conversation_history) = 3
    /\ DirectSuccess(conversation_history[2])
    /\ conversation_history[3] = Message("user", last_call.in.message, NoMetadata)

====
